---- MODULE Spec2Model ----
(***************************************************************************)
(* NeonShare client-side data stores (user.store, photo.store,            *)
(* comment.store): TTL caches, request deduplication, friend graph and    *)
(* registration, modelled over an abstract remote document store.         *)
(*                                                                         *)
(* Strings the code inspects character by character (usernames) are       *)
(* sequences of one-character strings.  Time is Date.now() in minutes.    *)
(* Every remote call is a suspension point: a call is split into the step *)
(* that issues the request and the step in which the response resumes it. *)
(***************************************************************************)
EXTENDS Integers, Sequences, FiniteSets, TLC

\* ------------------------------------------------------------------ bounds
\* Longest string over SmallAlphabet given to validateUsername.
MaxValLen == 3
\* Store calls issued in one behaviour.
MaxOps == 2
\* Store calls issued in one behaviour of the three-call race scenarios.
MaxRaceOps == 3
\* Clock advances in one behaviour.
MaxTicks == 1
\* The longest comment text of which every variation is tried.
MaxTextLen == 4
\* The full pages of the largest collection that is paginated.
MaxPages == 2
\* The longest photo list of which every arrangement is searched.
MaxListLen == 2
\* How far around MAX_SIZE the file sizes given to validateImage go.
SizeSlack == 3

\* -------------------------------------------------------------- characters
LowerChars == << "a","b","c","d","e","f","g","h","i","j","k","l","m",
                 "n","o","p","q","r","s","t","u","v","w","x","y","z" >>
UpperChars == << "A","B","C","D","E","F","G","H","I","J","K","L","M",
                 "N","O","P","Q","R","S","T","U","V","W","X","Y","Z" >>
DigitChars == { "0","1","2","3","4","5","6","7","8","9" }
WhiteSpace == { " ", "\t", "\n", "\r", "\f" }

Range(s) == { s[i] : i \in DOMAIN s }

\* String.prototype.toLowerCase on one character.
LowerChar(c) ==
    IF \E i \in DOMAIN UpperChars : UpperChars[i] = c
    THEN LowerChars[CHOOSE i \in DOMAIN UpperChars : UpperChars[i] = c]
    ELSE c

toLowerCase(s) == [ i \in DOMAIN s |-> LowerChar(s[i]) ]

\* String.prototype.trim: drop leading and trailing white space.
trim(s) ==
    LET keep == { i \in DOMAIN s : s[i] \notin WhiteSpace }
    IN  IF keep = {} THEN << >>
        ELSE LET lo == CHOOSE i \in keep : \A j \in keep : i <= j
                 hi == CHOOSE i \in keep : \A j \in keep : j <= i
             IN  SubSeq(s, lo, hi)

\* /^[a-z0-9_]+$/.test(s)
MatchesUsernameChars(s) ==
    /\ Len(s) >= 1
    /\ \A i \in DOMAIN s : s[i] \in Range(LowerChars) \cup DigitChars \cup {"_"}

reserved ==
    { << "a","d","m","i","n" >>,
      << "r","o","o","t" >>,
      << "s","y","s","t","e","m" >>,
      << "m","o","d","e","r","a","t","o","r" >>,
      << "m","o","d" >>,
      << "n","u","l","l" >>,
      << "u","n","d","e","f","i","n","e","d" >> }

MinUsernameLen == 3
MaxUsernameLen == 20

\* A seeded slip: the lower length check written as <= instead of <.
validateUsername_offByOne(username) ==
    LET trimmed == toLowerCase(trim(username))
    IN  IF Len(trimmed) <= MinUsernameLen
        THEN [valid |-> FALSE, error |-> "Username must be at least 3 characters"]
        ELSE IF Len(trimmed) > MaxUsernameLen
        THEN [valid |-> FALSE, error |-> "Username must be 20 characters or less"]
        ELSE IF ~MatchesUsernameChars(trimmed)
        THEN [valid |-> FALSE,
              error |-> "Username can only contain letters, numbers, and underscores"]
        ELSE IF trimmed \in reserved
        THEN [valid |-> FALSE, error |-> "This username is reserved"]
        ELSE [valid |-> TRUE]

validateUsername(username) ==
    LET trimmed == toLowerCase(trim(username))
    IN  IF Len(trimmed) < MinUsernameLen
        THEN [valid |-> FALSE, error |-> "Username must be at least 3 characters"]
        ELSE IF Len(trimmed) > MaxUsernameLen
        THEN [valid |-> FALSE, error |-> "Username must be 20 characters or less"]
        ELSE IF ~MatchesUsernameChars(trimmed)
        THEN [valid |-> FALSE,
              error |-> "Username can only contain letters, numbers, and underscores"]
        ELSE IF trimmed \in reserved
        THEN [valid |-> FALSE, error |-> "This username is reserved"]
        ELSE [valid |-> TRUE]

\* hashPassword: SHA-256 hex digest, an injective tagging of the plaintext.
hashPassword(password) == << "sha256", password >>

\* ------------------------------------------------------- comment text
\* MAX_COMMENT_LENGTH of the comment store.
MAX_COMMENT_LENGTH == 500
\* The form feed stands for the control characters \x00-\x08, \x0B, \x0C
\* and \x0E-\x1F.
ControlChars == { "\f" }

\* String.prototype.slice(0, n)
slice0(s, n) == SubSeq(s, 1, IF Len(s) < n THEN Len(s) ELSE n)

\* A seeded slip: the tag pattern is greedy, /<.*>/.
stripTags_greedy(s) ==
    IF \E i, j \in DOMAIN s : i < j /\ s[i] = "<" /\ s[j] = ">"
    THEN LET i == CHOOSE i \in DOMAIN s :
                     /\ s[i] = "<"
                     /\ \A k \in 1..(i - 1) : s[k] # "<"
             j == CHOOSE j \in DOMAIN s :
                     /\ s[j] = ">"
                     /\ \A k \in (j + 1)..Len(s) : s[k] # ">"
         IN  SubSeq(s, 1, i - 1) \o SubSeq(s, j + 1, Len(s))
    ELSE s

\* replace(/<[^>]*>/g, ''): from the left, every "<" that has a ">" after it
\* is removed together with everything up to the nearest such ">"; the
\* search goes on behind the match.
RECURSIVE stripTags(_)
stripTags(s) ==
    IF \E i, j \in DOMAIN s : i < j /\ s[i] = "<" /\ s[j] = ">"
    THEN LET i == CHOOSE i \in DOMAIN s :
                     /\ s[i] = "<"
                     /\ \E j \in (i + 1)..Len(s) : s[j] = ">"
                     /\ \A k \in 1..(i - 1) :
                           ~(s[k] = "<" /\ \E j \in (k + 1)..Len(s) : s[j] = ">")
             j == CHOOSE j \in (i + 1)..Len(s) :
                     /\ s[j] = ">"
                     /\ \A k \in (i + 1)..(j - 1) : s[k] # ">"
         IN  SubSeq(s, 1, i - 1) \o stripTags(SubSeq(s, j + 1, Len(s)))
    ELSE s

\* replace(/[\x00-\x08\x0B\x0C\x0E-\x1F]/g, '')
stripControlChars(s) == SelectSeq(s, LAMBDA c : c \notin ControlChars)

sanitizeCommentText(text) ==
    stripControlChars(stripTags(slice0(trim(text), MAX_COMMENT_LENGTH)))

\* ------------------------------------------------------------ data model
amy == << "a","m","y" >>
bob == << "b","o","b" >>
\* A name that belongs to no account and no photo: a stranger.
cal == << "c","a","l" >>
\* Document ids of the 'users' collection, in the remote store's id order.
Usernames == << amy, bob >>
\* What is typed into the registration forms: a password sign-up, a Google
\* profile completion, and a name the validation rejects.
RegisterInputs ==
    { [ username |-> amy, password |-> "p1", googleId |-> "" ],
      [ username |-> << " ","A","m","y" >>, password |-> "", googleId |-> "g1" ],
      [ username |-> << "m","o","d" >>, password |-> "p1", googleId |-> "" ] }
GoogleIds == { "g1" }

\* Document ids of the 'photos' collection, in the remote store's id order.
PhotoIds == << "p1", "p2" >>
Photo(id, uploader, tags, timestamp) ==
    [ id |-> id, uploader |-> uploader, tags |-> tags,
      timestamp |-> timestamp, deleted |-> FALSE ]
\* The photo already uploaded at start-up, and the one uploaded later on.
FirstPhoto == Photo("p1", bob, << amy >>, 2)
NewPhotos == { Photo("p2", amy, << bob >>, 3) }

\* Comment texts typed by users, and the random suffixes of comment ids.
CommentTexts == { << "h","i" >>, << " ","<","b",">"," " >> }
Randoms == { "r1" }

\* Cache TTLs in minutes: user.store 5 * 60 * 1000 ms, photo.store
\* 2 * 60 * 1000 ms, comment store 60 * 1000 ms.
CACHE_TTL == 5
PHOTO_CACHE_TTL == 2
\* photo.store PAGE_SIZE
PAGE_SIZE == 20
\* The ids of the photos of a collection that takes several pages.
PagedIds == [ i \in 1..(MaxPages * PAGE_SIZE + 1) |-> "q" \o ToString(i) ]
\* LikeButton RATE_LIMIT_MS
RATE_LIMIT_MS == 1000
\* PhotoFeed: the delay of the permanent delete after a soft delete, and
\* the duration of the toast that offers Undo, in ms.
GRACE_MS == 30000
UNDO_TOAST_MS == 10000
\* validateImage MAX_SIZE and ALLOWED_TYPES
MAX_SIZE == 10 * 1024 * 1024
ALLOWED_TYPES == { "image/jpeg", "image/png", "image/gif", "image/webp" }

\* A seeded slip: a file of exactly MAX_SIZE is too large.
validateImage_exclusive(file) ==
    IF file.type \notin ALLOWED_TYPES
    THEN [ valid |-> FALSE,
           error |-> "Invalid file type. Use JPEG, PNG, GIF, or WebP." ]
    ELSE IF file.size >= MAX_SIZE
    THEN [ valid |-> FALSE, error |-> "File too large. Maximum size is 10MB." ]
    ELSE [ valid |-> TRUE, error |-> "" ]

\* validateImage(file); error "" stands for no error property.
validateImage(file) ==
    IF file.type \notin ALLOWED_TYPES
    THEN [ valid |-> FALSE,
           error |-> "Invalid file type. Use JPEG, PNG, GIF, or WebP." ]
    ELSE IF file.size > MAX_SIZE
    THEN [ valid |-> FALSE, error |-> "File too large. Maximum size is 10MB." ]
    ELSE [ valid |-> TRUE, error |-> "" ]

\* new CustomEvent(type, { detail }) about a photo
Event(type, photoId) == [ type |-> type, photoId |-> photoId ]
COMMENT_CACHE_TTL == 1
\* Date.now() at start-up: far past the epoch, so a timestamp of 0 is stale.
StartTime == 2 * CACHE_TTL
Delays == { 1, CACHE_TTL }

\* ---------------------------------------------------------------- state
VARIABLES
    now,              \* Date.now(), in minutes
    ticks,            \* clock advances so far
    ops,              \* store calls issued so far; the next call's id is ops + 1
    budget,           \* store calls this behaviour may issue
    remoteUsers,      \* remote 'users' collection: document id -> User
    userCache,        \* user.store userCache: username -> CacheEntry<User>
    allUsersCacheRef, \* user.store allUsersCacheRef: CacheEntry<User[]>
    pendingRequests,  \* user.store pendingRequests: key -> in-flight fetch
    remotePhotos,     \* remote 'photos' collection: document id -> Photo
    photosCache,      \* photo.store photosCache: optional CacheEntry<Photo[]>
    photoPendingRequests, \* photo.store pendingRequests: key -> in-flight fetch
    remoteComments,   \* remote 'comments' subcollections: photo id -> Comment[]
    commentsCache,    \* comment store commentsCache: photo id -> entry
    fetches,          \* remote reads in flight: fetch id -> [key, read, snap]
    nextFid,          \* id of the next remote read; nextFid - 1 reads were issued
    calls,            \* suspended store calls: call id -> call record
    returned,         \* the calls that returned in the last step: id -> return
    friendEpoch,      \* history: successful friend mutations so far
    lastFriendOp,     \* history: pair of users -> "added" / "removed"
    lastRead,         \* history: key -> when its last read completed or its
                      \* entry was refreshed since, and whether with data
    dropped,          \* history: username -> TRUE while the entry a friend
                      \* write dropped is still absent, FALSE once it was
                      \* cached again; until the user's next read
    lastCall,         \* history: the cached read invoked in the last step
    vIn,              \* validateUsername: the input
    vOut,             \* validateUsername: the result, << >> before the call
    remoteReactions,  \* remote 'reactions' subcollections: the documents
                      \* [photoId, id, userId] of all photos
    reactionCountCache,  \* reaction.store reactionCountCache: photo id -> count
    userReactionsCache,  \* reaction.store userReactionsCache: user id -> photo ids
    reactionEvents,   \* the reactionChanged events dispatched so far
    loadResults,      \* loadReactionsForPhotos: call id -> its results map
    lastDoc,          \* photo.store lastDoc: the pagination cursor, optional
    pageLog,          \* history: the getPhotosPaginated calls settled so far,
                      \* in the order they settled
    feedReactions,    \* PhotoFeed reactions state: photo id -> {count, isLiked}
    likeButton,       \* LikeButton state of the feed's button of FirstPhoto
    likeBase,         \* history: (photo, user) -> the cached count before the
                      \* pair's like, while nothing else touched that count
    domEvents,        \* the CustomEvents dispatched on window so far, but
                      \* for reactionChanged
    deletedPhotos,    \* PhotoFeed deletedPhotos state: photo id -> timeoutId
    undoToasts,       \* the 'Photo deleted' toasts shown, by the handleDelete
                      \* call that showed them: [photoId, seen (the
                      \* deletedPhotos map the Undo handler closes over),
                      \* shownAt, clicked, inTime]
    timers,           \* the grace timers set and not cleared: timeoutId ->
                      \* [photoId, setAt]
    commentsView,     \* the Comments component of FirstPhoto, optional:
                      \* [user, comments, isLoading, isSubmitting, delivered
                      \* (the snapshot its listener delivered last, optional)]
    session,          \* AuthProvider state: user and stored (the localStorage
                      \* item), both optional, authStatus and friends
    feedList          \* the mounted PhotoFeed's list, optional: [user, photos
                      \* (the photos state), loads (the loadPhotos calls in
                      \* flight: the fetch each awaits and the photo of the
                      \* event that started it), done (history: the events
                      \* whose loads the last setPhotos completed)]

stores == << remoteUsers, userCache, allUsersCacheRef, remotePhotos,
             photosCache, remoteComments, commentsCache >>
requests == << pendingRequests, photoPendingRequests, fetches, nextFid >>
reactionCaches == << reactionCountCache, userReactionsCache >>
reactionStore == << remoteReactions, reactionCaches, reactionEvents,
                    loadResults, likeBase >>
feedDelete == << deletedPhotos, undoToasts, timers, feedList >>
feed == << feedReactions, likeButton, feedDelete >>
paging == << lastDoc, pageLog >>
app == << session, commentsView >>
extras == << reactionStore, paging, feed, domEvents, app >>
vars == << now, ticks, ops, budget, stores, requests, calls, returned,
           friendEpoch, lastFriendOp, lastRead, dropped, lastCall, vIn, vOut,
           extras >>

\* ---------------------------------------------------- maps and optionals
\* An optional value is << >> (null / undefined) or << v >>.
Null == << >>
IsNull(o) == Len(o) = 0
NoMap == << >>

\* Map.set
MapSet(m, k, v) == [ x \in (DOMAIN m) \cup {k} |-> IF x = k THEN v ELSE m[x] ]
\* Map.delete
MapDelete(m, k) == [ x \in (DOMAIN m) \ {k} |-> m[x] ]
\* Map.get as an optional
MapGet(m, k) == IF k \in DOMAIN m THEN << m[k] >> ELSE Null

\* ---------------------------------------------------- remote primitives
\* Firestore arrayUnion: add the element unless it is already there.
arrayUnion_append(list, x) == Append(list, x)

arrayUnion(list, x) == IF x \in Range(list) THEN list ELSE Append(list, x)

\* Firestore arrayRemove: remove every occurrence of the element.
arrayRemove(list, x) == SelectSeq(list, LAMBDA y : y # x)

\* updateDoc / batch.update of an existing document's friends field.
UpdateFriends(remote, id, list) ==
    [ remote EXCEPT ![id] = [ @ EXCEPT !.friends = list ] ]

\* getDocs(collection(db, 'users')): every document, in id order.
AllUserDocs(remote) ==
    LET ids == SelectSeq(Usernames, LAMBDA u : u \in DOMAIN remote)
    IN  [ i \in DOMAIN ids |-> remote[ids[i]] ]

\* getDocs(query(users, where('googleId', '==', g))).docs[0], if any.
FirstByGoogleId(remote, g) ==
    LET hits == SelectSeq(AllUserDocs(remote), LAMBDA u : u.googleId = g)
    IN  IF Len(hits) = 0 THEN Null ELSE << hits[1] >>

\* getDocs(collection(db, 'photos')): every document, in id order.
AllPhotoDocs(remote) ==
    LET ids == SelectSeq(PhotoIds, LAMBDA p : p \in DOMAIN remote)
    IN  [ i \in DOMAIN ids |-> remote[ids[i]] ]

\* getDocs(query(comments of photoId, orderBy('timestamp', 'asc')))
CommentDocs(remote, photoId) ==
    IF photoId \in DOMAIN remote THEN remote[photoId] ELSE << >>

\* setDoc of a comment: a document with the same id is replaced, a new one
\* takes its place in timestamp order, which is the order of arrival.
PutComment(list, comment) ==
    IF \E i \in DOMAIN list : list[i].id = comment.id
    THEN [ i \in DOMAIN list |->
             IF list[i].id = comment.id THEN comment ELSE list[i] ]
    ELSE Append(list, comment)

\* query(photos, orderBy('timestamp', 'desc')): newest first, documents
\* with equal timestamps in descending id order.
IdIndex(id) ==
    LET ids == PhotoIds \o PagedIds
    IN  CHOOSE i \in DOMAIN ids : ids[i] = id
Precedes(p, q) ==
    \/ p.timestamp > q.timestamp
    \/ p.timestamp = q.timestamp /\ IdIndex(p.id) > IdIndex(q.id)

RECURSIVE InQueryOrder(_)
InQueryOrder(docs) ==
    IF docs = {} THEN << >>
    ELSE LET first == CHOOSE p \in docs : \A q \in docs \ {p} : Precedes(p, q)
         IN  << first >> \o InQueryOrder(docs \ {first})

\* A seeded slip: startAt, the page begins with the cursor document.
PageDocs_startAt(remote, cursor) ==
    LET docs == { remote[p] : p \in DOMAIN remote }
        rest == IF IsNull(cursor) THEN docs
                ELSE { p \in docs : p = cursor[1] \/ Precedes(cursor[1], p) }
        limited == { p \in rest :
                       Cardinality({ q \in rest : Precedes(q, p) }) < PAGE_SIZE }
    IN  InQueryOrder(limited)

\* getDocs(query(photos, orderBy('timestamp', 'desc'), limit(PAGE_SIZE),
\* startAfter(cursor))): the page that follows the cursor document.
PageDocs(remote, cursor) ==
    LET docs == { remote[p] : p \in DOMAIN remote }
        rest == IF IsNull(cursor) THEN docs
                ELSE { p \in docs : Precedes(cursor[1], p) }
        limited == { p \in rest :
                       Cardinality({ q \in rest : Precedes(q, p) }) < PAGE_SIZE }
    IN  InQueryOrder(limited)

\* doc(db, 'photos', photoId, 'reactions', userId): the reference of the
\* reaction of a user to a photo.
reactionRef(photoId, userId) == [ photoId |-> photoId, id |-> userId ]

\* The Reaction document stored under a reference.
Reaction(ref, userId) ==
    [ photoId |-> ref.photoId, id |-> ref.id, userId |-> userId ]

\* getDoc(ref).exists(), deleteDoc(ref), setDoc(ref, reaction).
DocExists(remote, ref) ==
    \E d \in remote : d.photoId = ref.photoId /\ d.id = ref.id

DeleteDoc(remote, ref) ==
    { d \in remote : ~(d.photoId = ref.photoId /\ d.id = ref.id) }

SetDoc(remote, ref, reaction) == DeleteDoc(remote, ref) \cup { reaction }

\* getDocs(query(collection(db, 'photos', photoId, 'reactions'))): the
\* reaction documents of a photo.
ReactionDocs(remote, photoId) == { d \in remote : d.photoId = photoId }

\* snapshot.docs.some(doc => doc.id === userId)
SomeDocOf(snapshot, userId) == \E d \in snapshot : d.id = userId

\* Keys of the reads: `user:${username}`, `google:${googleId}`, 'allUsers'
\* in user.store, 'allPhotos' in photo.store; the comments of a photo.
UserKey(u) == << "user", u >>
GoogleKey(g) == << "google", << g >> >>
AllUsersKey == << "allUsers", << >> >>
AllPhotosKey == << "allPhotos", << >> >>
CommentsKey(photoId) == << "comments", << photoId >> >>
\* The reads that have no key in the code: a page after a cursor, the
\* reactions of a photo as read by getReactionCount and by hasUserLiked.
PageKey(cursor) == << "page", cursor >>
CountKey(photoId) == << "reactionCount", << photoId >> >>
LikedKey(photoId, userId) == << "hasUserLiked", << photoId, userId >> >>
\* The read of one photo's reactions by the loadReactionsForPhotos call c.
LoadKey(photoId, userId, c) == << "loadReactions", << photoId, userId, c >> >>

\* What the remote store answers to the read behind a key.
RemoteRead(key) ==
    CASE key[1] = "user" -> MapGet(remoteUsers, key[2])
      [] key[1] = "google" -> FirstByGoogleId(remoteUsers, key[2][1])
      [] key[1] = "allUsers" -> AllUserDocs(remoteUsers)
      [] key[1] = "allPhotos" -> AllPhotoDocs(remotePhotos)
      [] key[1] = "page" -> PageDocs(remotePhotos, key[2])
      [] key[1] \in { "reactionCount", "hasUserLiked", "loadReactions" } ->
            ReactionDocs(remoteReactions, key[2][1])
      [] OTHER -> CommentDocs(remoteComments, key[2][1])

\* ------------------------------------------------- user.store primitives
\* db of firebase.ts: the model is of a client whose Firebase is configured.
db == TRUE

\* A seeded slip: every call starts its own fetch.
deduplicateRequest_always(pending, key, fid) ==
    [ fid |-> fid, fresh |-> TRUE ]

\* deduplicateRequest: the promise to await for `key`, and whether the
\* fetcher is invoked (fresh) or an in-flight promise is shared.
deduplicateRequest(pending, key, fid) ==
    IF key \in DOMAIN pending
    THEN [ fid |-> pending[key], fresh |-> FALSE ]
    ELSE [ fid |-> fid, fresh |-> TRUE ]

\* A seeded slip: an entry still counts as valid at exactly the TTL.
isCacheValid_inclusive(entry, t) ==
    /\ ~IsNull(entry)
    /\ t - entry[1].timestamp <= CACHE_TTL

\* isCacheValid of user.store, on an optional cache entry at time t.
isCacheValid(entry, t) ==
    /\ ~IsNull(entry)
    /\ t - entry[1].timestamp < CACHE_TTL

\* { data: [], timestamp: 0 }: the invalidated "all users" cache.
InvalidAllUsers == [ data |-> << >>, timestamp |-> 0 ]

CacheEntry(data, t) == [ data |-> data, timestamp |-> t ]

\* A seeded slip: only the caller's own entry is dropped.
InvalidateFriendCaches_onlyCurrent(cache, currentUsername, targetUsername) ==
    MapDelete(cache, currentUsername)

\* userCache.delete(currentUsername); userCache.delete(targetUsername)
InvalidateFriendCaches(cache, currentUsername, targetUsername) ==
    MapDelete(MapDelete(cache, currentUsername), targetUsername)

\* A seeded slip: the "all users" cache is left as it was on registration.
AllUsersAfterRegister_kept(cacheRef) == cacheRef

\* allUsersCacheRef = { data: [], timestamp: 0 } after a registration.
AllUsersAfterRegister(cacheRef) == InvalidAllUsers

\* users.forEach(user => userCache.set(user.username, {data, timestamp}))
CacheAll(cache, users, t) ==
    [ x \in (DOMAIN cache) \cup { users[i].username : i \in DOMAIN users } |->
        IF \E i \in DOMAIN users : users[i].username = x
        THEN CacheEntry(
               users[CHOOSE i \in DOMAIN users :
                        /\ users[i].username = x
                        /\ \A j \in DOMAIN users :
                              users[j].username = x => j <= i], t)
        ELSE cache[x] ]

\* ---------------------------------- photo.store and comment store primitives
\* deduplicateRequest of photo.store.
photoDeduplicateRequest(pending, key, fid) ==
    IF key \in DOMAIN pending
    THEN [ fid |-> pending[key], fresh |-> FALSE ]
    ELSE [ fid |-> fid, fresh |-> TRUE ]

\* isCacheValid of photo.store, on the optional photosCache at time t.
isPhotoCacheValid(entry, t) ==
    /\ ~IsNull(entry)
    /\ t - entry[1].timestamp < PHOTO_CACHE_TTL

\* isCacheValid(photoId) of the comment store at time t.
isCommentCacheValid(cache, photoId, t) ==
    /\ photoId \in DOMAIN cache
    /\ t - cache[photoId].timestamp < COMMENT_CACHE_TTL

\* Array.prototype.sort((a, b) => b.timestamp - a.timestamp): a stable sort,
\* newest first.
RECURSIVE sortNewestFirst(_)
sortNewestFirst(photos) ==
    IF Len(photos) <= 1 THEN photos
    ELSE LET rest == sortNewestFirst(SubSeq(photos, 1, Len(photos) - 1))
             last == photos[Len(photos)]
             before == SelectSeq(rest, LAMBDA p : p.timestamp >= last.timestamp)
             after == SelectSeq(rest, LAMBDA p : p.timestamp < last.timestamp)
         IN  before \o << last >> \o after

\* String.prototype.includes on strings as sequences of characters.
includes(s, sub) ==
    \E i \in 0..(Len(s) - Len(sub)) : SubSeq(s, i + 1, i + Len(sub)) = sub

\* query.toLowerCase().trim().replace(/^@/, '')
normalizedQuery(query) ==
    LET q == trim(toLowerCase(query))
    IN  IF Len(q) > 0 /\ q[1] = "@" THEN SubSeq(q, 2, Len(q)) ELSE q

\* A seeded slip: the uploader is compared as it is written.
searchPhotos_uploaderAsWritten(photos, query) ==
    LET q == normalizedQuery(query)
    IN  IF q = << >> THEN photos
        ELSE SelectSeq(photos, LAMBDA photo :
                 \/ includes(photo.uploader, q)
                 \/ \E i \in DOMAIN photo.tags :
                        includes(toLowerCase(photo.tags[i]), q))

\* searchPhotos(photos, query)
searchPhotos(photos, query) ==
    LET q == normalizedQuery(query)
    IN  IF q = << >> THEN photos
        ELSE SelectSeq(photos, LAMBDA photo :
                 \/ includes(toLowerCase(photo.uploader), q)
                 \/ \E i \in DOMAIN photo.tags :
                        includes(toLowerCase(photo.tags[i]), q))

\* A seeded slip: the filter of getVisiblePhotos without its tags clause.
AfterPhotosRead_uploaderOnly(call, allPhotos) ==
    IF call.op = "getVisiblePhotos"
    THEN SelectSeq(allPhotos, LAMBDA photo : photo.uploader = call.a)
    ELSE allPhotos

\* The code that runs when `await getAllPhotos()` yields allPhotos:
\* getVisiblePhotos(username) keeps the photos the user uploaded or is
\* tagged in, getAllPhotos hands the list on.
AfterPhotosRead(call, allPhotos) ==
    IF call.op = "getVisiblePhotos"
    THEN SelectSeq(allPhotos, LAMBDA photo :
             photo.uploader = call.a \/ call.a \in Range(photo.tags))
    ELSE allPhotos

\* ------------------------------------------------- history of cached reads
\* The TTL of the cache that answers the reads of a key.
TTLOf(key) ==
    CASE key[1] = "allPhotos" -> PHOTO_CACHE_TTL
      [] key[1] = "comments" -> COMMENT_CACHE_TTL
      [] OTHER -> CACHE_TTL

\* A read of `key` completed now, with or without data to cache.
Completed(lr, key, data) ==
    MapSet(lr, key, [ at |-> now, data |-> data, error |-> FALSE ])

\* A read of `key` completed now with nothing to cache (no such record, or
\* an error that was caught); an entry cached earlier stays as it is.
CompletedEmpty(lr, key, error) ==
    IF key \in DOMAIN lr /\ lr[key].data THEN lr
    ELSE MapSet(lr, key, [ at |-> now, data |-> FALSE, error |-> error ])

\* The users' entries were written again now by another path.
Refreshed(lr, users) ==
    [ k \in DOMAIN lr |->
        IF k[1] = "user" /\ k[2] \in users
        THEN [ at |-> now, data |-> TRUE, error |-> FALSE ] ELSE lr[k] ]

\* The window of these keys is over: an invalidating write, or the read
\* that found the TTL elapsed.
Forgotten(lr, keys) == [ k \in (DOMAIN lr) \ keys |-> lr[k] ]

\* These users' entries were dropped by a friend write.
Dropped(dr, users) ==
    [ u \in (DOMAIN dr) \cup users |-> IF u \in users THEN TRUE ELSE dr[u] ]

\* These users' entries were written now.
Recached(dr, users) ==
    [ u \in DOMAIN dr |-> IF u \in users THEN FALSE ELSE dr[u] ]

\* Where `dropped` keeps the history of the entry that answers the reads of
\* a key: under the username, or under the name of the cache and the photo.
DropSlot(key) ==
    CASE key[1] = "user" -> key[2]
      [] key[1] = "comments" -> << "comments", key[2][1] >>
      [] OTHER -> << key[1] >>

\* A cached read of `key` is invoked; cached = a valid entry answered it,
\* fetched = it sent a remote read (neither: it joined a read in flight).
ReadInvoked(key, cached, fetched) ==
    /\ lastCall' = << [ key |-> key, cached |-> cached, fetched |-> fetched,
                        at |-> now, prior |-> MapGet(lastRead, key),
                        dropped |-> MapGet(dropped, DropSlot(key)) ] >>
    /\ lastRead' = IF /\ key \in DOMAIN lastRead
                      /\ now - lastRead[key].at >= TTLOf(key)
                   THEN Forgotten(lastRead, {key})
                   ELSE lastRead
    /\ dropped' = MapDelete(dropped, DropSlot(key))

NoReadInvoked == lastCall' = Null

\* A step that is no cached read and touches no cache.
NoHistory == NoReadInvoked /\ UNCHANGED << lastRead, dropped >>

\* ------------------------------------------------------------ call records
Pair(a, b) == { a, b }

\* The record of a store call op(a, b), with the credentials of a
\* registration or a login.  epoch, cu, ca, uploads and record are history:
\* the friend epoch, the two user.store cache entries, the ids of the stored
\* photos and the remote record of a login's username as they were when the
\* call was issued.
NewCall(op, a, b, pw, gid) ==
    [ op |-> op, a |-> a, b |-> b, pw |-> pw, gid |-> gid,
      pc |-> "await", fid |-> 0,
      uploads |-> IF op = "getVisiblePhotos" THEN DOMAIN remotePhotos ELSE {},
      alone |-> \A c \in DOMAIN calls : calls[c].op # "toggleLike",
      existed |-> FALSE, via |-> "store", progress |-> << >>,
      input |-> Null,
      record |-> IF op = "login" THEN MapGet(remoteUsers, a) ELSE Null,
      epoch |-> IF op = "getFriends" THEN friendEpoch ELSE 0,
      cu |-> IF op = "registerUser"
             THEN MapGet(userCache, toLowerCase(trim(a))) ELSE Null,
      ca |-> IF op = "registerUser" THEN << allUsersCacheRef >> ELSE Null ]

\* (History of a call: uploads = the photos stored when it was made, alone =
\* no toggleLike ran while it did, existed = what toggleLike's check found,
\* via = who made the call: the store's client, the feed's like button or a
\* double tap on the feed's photo.)
\* What a call hands back, with history of how it got there: failed = an
\* error was caught, committed = a remote write was made, overwrote = that
\* write replaced an existing record, wasFriend = the two users were friends
\* before the write.
Return(call, result, failed, committed, overwrote, wasFriend) ==
    [ op |-> call.op, a |-> call.a, b |-> call.b, pw |-> call.pw,
      gid |-> call.gid, record |-> call.record, fid |-> call.fid, result |-> result, failed |-> failed, committed |-> committed,
      overwrote |-> overwrote, wasFriend |-> wasFriend,
      epoch |-> call.epoch, cu |-> call.cu, ca |-> call.ca,
      uploads |-> call.uploads, threw |-> FALSE,
      pc |-> call.pc, alone |-> call.alone, existed |-> call.existed,
      via |-> call.via, progress |-> call.progress, input |-> call.input ]

PlainReturn(call, result, failed) ==
    Return(call, result, failed, FALSE, FALSE, FALSE)

\* The call's promise rejects: an error reaches the caller.
Throw(call) ==
    [ PlainReturn(call, Null, TRUE) EXCEPT !.threw = TRUE ]

normalizedUsername(call) == toLowerCase(trim(call.a))

\* The password the login form hands over, as a value to compare with a
\* stored one: the text itself, which is the digest of no password.
typed(password) == << "text", password >>

\* AuthProvider.login's test of the record it read:
\* userData && (userData.password === password || userData.googleId).
Admits(res, password) ==
    /\ ~IsNull(res)
    /\ \/ res[1].password = typed(password)
       \/ res[1].googleId # ""

\* A seeded slip: addFriend without the self-friending check.
AfterUserRead_noSelfCheck(call, res) ==
    CASE call.op = "getUser" -> [ done |-> TRUE, result |-> res ]
      [] call.op = "getFriends" ->
            [ done |-> TRUE,
              result |-> IF IsNull(res) THEN << >> ELSE res[1].friends ]
      [] call.op = "registerUser" ->
            IF ~IsNull(res)
            THEN [ done |-> TRUE,
                   result |-> [ success |-> FALSE,
                                message |-> "Username already exists" ] ]
            ELSE [ done |-> FALSE, result |-> Null ]
      [] call.op = "login" ->
            [ done |-> TRUE, result |-> Admits(res, call.pw) ]
      [] OTHER ->
            IF IsNull(res) THEN [ done |-> TRUE, result |-> FALSE ]
            ELSE [ done |-> FALSE, result |-> Null ]

\* The code that runs when `await getUserByUsername(..)` yields `res` inside
\* getUserByUsername / getFriends / registerUser / addFriend: either the call
\* returns (done) or it goes on to its remote write.
AfterUserRead(call, res) ==
    CASE call.op = "getUser" -> [ done |-> TRUE, result |-> res ]
      [] call.op = "getFriends" ->
            [ done |-> TRUE,
              result |-> IF IsNull(res) THEN << >> ELSE res[1].friends ]
      [] call.op = "registerUser" ->
            IF ~IsNull(res)
            THEN [ done |-> TRUE,
                   result |-> [ success |-> FALSE,
                                message |-> "Username already exists" ] ]
            ELSE [ done |-> FALSE, result |-> Null ]
      [] call.op = "login" ->
            [ done |-> TRUE, result |-> Admits(res, call.pw) ]
      [] OTHER ->
            IF IsNull(res) THEN [ done |-> TRUE, result |-> FALSE ]
            ELSE IF call.a = call.b THEN [ done |-> TRUE, result |-> FALSE ]
            ELSE [ done |-> FALSE, result |-> Null ]

\* AuthProvider.login resumes in the calls of `rets`, which all read the
\* record `res`: each call that admits it stores the username, sets user,
\* authStatus and friends and dispatches userChanged; the calls resume in
\* the order they were made.
AfterLogin(rets, res) ==
    LET admitted == { c \in DOMAIN rets : rets[c].op = "login" /\ rets[c].result }
        last == CHOOSE c \in admitted : \A d \in admitted : d <= c
    IN  IF admitted = {}
        THEN UNCHANGED << domEvents, session >>
        ELSE /\ session' = [ user |-> << rets[last].a >>,
                             authStatus |-> "authenticated",
                             friends |-> res[1].friends,
                             stored |-> << rets[last].a >> ]
             /\ domEvents' = domEvents \o
                    [ i \in 1..Cardinality(admitted) |-> Event("userChanged", "") ]

\* The username whose record a call reads through getUserByUsername.
ReadTarget(call) ==
    CASE call.op = "registerUser" -> normalizedUsername(call)
      [] call.op = "addFriend" -> call.b
      [] OTHER -> call.a

\* -------------------------------------------------------------- Init
InitialUser(u) ==
    [ username |-> u, friends |-> << >>,
      password |-> hashPassword("p1"), googleId |-> "" ]

\* The accounts that exist at start-up.
InitialAccounts == { { bob }, { amy, bob } }

InitStoresWith(b, users, photos) ==
    /\ now = StartTime
    /\ ticks = 0
    /\ ops = 0
    /\ budget = b
    /\ remoteUsers = users
    /\ userCache = NoMap
    /\ allUsersCacheRef = InvalidAllUsers
    /\ pendingRequests = NoMap
    /\ remotePhotos = photos
    /\ photosCache = Null
    /\ photoPendingRequests = NoMap
    /\ remoteComments = NoMap
    /\ commentsCache = NoMap
    /\ fetches = NoMap
    /\ nextFid = 1
    /\ calls = NoMap
    /\ returned = NoMap
    /\ friendEpoch = 0
    /\ lastFriendOp = NoMap
    /\ lastRead = NoMap
    /\ dropped = NoMap
    /\ lastCall = Null

InitStoresFrom(b, users) ==
    InitStoresWith(b, users, [ p \in { FirstPhoto.id } |-> FirstPhoto ])

InitStores(b, accounts) ==
    InitStoresFrom(b, [ u \in accounts |-> InitialUser(u) ])

\* AuthProvider's state once its mount effect found no stored user.
SignedOut ==
    [ user |-> Null, authStatus |-> "unauthenticated", friends |-> << >>,
      stored |-> Null ]

\* LikeButton's state as first rendered from its props; with history of its
\* last click: what it showed before it (shownLiked, shownCount) and whether
\* the toggle that click started has failed.
ButtonOf(props) ==
    [ optimisticLiked |-> props.isLiked, optimisticCount |-> props.count,
      isPending |-> FALSE, lastClick |-> 0, disabled |-> FALSE,
      shownLiked |-> props.isLiked, shownCount |-> props.count,
      failed |-> FALSE, ignored |-> FALSE ]

\* reactions.get(photo.id) || { count: 0, isLiked: false }: the props the
\* feed hands to the like button of a photo.
ReactionOf(reactions, photoId) ==
    IF photoId \in DOMAIN reactions THEN reactions[photoId]
    ELSE [ count |-> 0, isLiked |-> FALSE ]

InitialButton == ButtonOf(ReactionOf(NoMap, FirstPhoto.id))

\* The reaction store at start-up, with the given reactions in the remote
\* store, and the feed with the given reactions state.
InitFeedWith(likes, reactions, disabled) ==
    /\ remoteReactions = likes
    /\ reactionCountCache = NoMap
    /\ userReactionsCache = NoMap
    /\ reactionEvents = << >>
    /\ loadResults = NoMap
    /\ likeBase = NoMap
    /\ lastDoc = Null
    /\ pageLog = << >>
    /\ feedReactions = reactions
    /\ likeButton = [ ButtonOf(ReactionOf(reactions, FirstPhoto.id))
                        EXCEPT !.disabled = disabled ]
    /\ domEvents = << >>
    /\ session = SignedOut
    /\ commentsView = Null
    /\ deletedPhotos = NoMap
    /\ undoToasts = NoMap
    /\ timers = NoMap
    /\ feedList = Null

InitReactionsFeed(likes, reactions) == InitFeedWith(likes, reactions, FALSE)

InitReactions(likes) == InitReactionsFeed(likes, NoMap)

InitExtras == InitReactions({})

Init ==
    /\ \E accounts \in InitialAccounts : InitStores(MaxOps, accounts)
    /\ InitExtras
    /\ vIn = << >>
    /\ vOut = << >>

\* ------------------------------------------------------ user.store calls
NoFetch == UNCHANGED requests

\* What a step that calls into a store leaves alone, unless it says otherwise.
CoreCallFrame ==
    UNCHANGED << now, ticks, budget, stores, friendEpoch, lastFriendOp,
                 vIn, vOut >>

CallFrame == CoreCallFrame /\ UNCHANGED extras

\* deduplicateRequest(key, fetcher) up to the fetcher's first await: the
\* remote read is sent and its promise registered in the same step.
AwaitKey(key) ==
    LET d == deduplicateRequest(pendingRequests, key, nextFid)
    IN  /\ IF d.fresh
           THEN /\ fetches' = MapSet(fetches, d.fid,
                                [ key |-> key, read |-> FALSE, snap |-> << >> ])
                /\ pendingRequests' = MapSet(pendingRequests, key, d.fid)
                /\ nextFid' = nextFid + 1
           ELSE UNCHANGED << pendingRequests, fetches, nextFid >>
        /\ UNCHANGED photoPendingRequests

AwaitedFid(key) == deduplicateRequest(pendingRequests, key, nextFid).fid

Issue(call) ==
    /\ ops < budget
    /\ ops' = ops + 1
    /\ calls' = MapSet(calls, ops + 1, call)
    /\ returned' = NoMap

ReturnAtOnce(ret) ==
    /\ ops < budget
    /\ ops' = ops + 1
    /\ calls' = calls
    /\ returned' = MapSet(NoMap, ops + 1, ret)

\* getUserByUsername(u) as called by `call`, up to its first suspension:
\* a valid cache entry answers at once, otherwise the call awaits the
\* deduplicated fetch of `user:${u}`.
StartUserRead(call, u) ==
    IF ~db \/ isCacheValid(MapGet(userCache, u), now)
    THEN LET res == IF ~db THEN Null ELSE << userCache[u].data >>
             k == AfterUserRead(call, res)
         IN  /\ IF k.done
                THEN ReturnAtOnce(PlainReturn(call, k.result, FALSE))
                ELSE Issue([ call EXCEPT !.pc = "write" ])
             /\ NoFetch
             /\ ReadInvoked(UserKey(u), TRUE, FALSE)
    ELSE /\ Issue([ call EXCEPT !.fid = AwaitedFid(UserKey(u)) ])
         /\ AwaitKey(UserKey(u))
         /\ ReadInvoked(UserKey(u), FALSE,
               deduplicateRequest(pendingRequests, UserKey(u), nextFid).fresh)

\* getUserByUsername(username), also behind prefetchUser(username).
GetUserByUsername(username) ==
    /\ StartUserRead(NewCall("getUser", username, username, "", ""), username)
    /\ CallFrame

\* AuthProvider.login(username, password), up to the first suspension of its
\* read; a cached record lets it finish at once.
Login(username, password) ==
    /\ StartUserRead(NewCall("login", username, username, password, ""),
                     username)
    /\ AfterLogin(returned', IF username \in DOMAIN userCache
                             THEN << userCache[username].data >> ELSE Null)
    /\ UNCHANGED << reactionStore, paging, feed, commentsView >>
    /\ CoreCallFrame

\* getFriends(username)
GetFriends(username) ==
    /\ StartUserRead(NewCall("getFriends", username, username, "", ""), username)
    /\ CallFrame

\* getUserByGoogleId(googleId): never answered from the cache.
GetUserByGoogleId(googleId) ==
    LET call == NewCall("getUserByGoogleId", << >>, << >>, "", googleId)
    IN  /\ IF ~db
           THEN ReturnAtOnce(PlainReturn(call, Null, FALSE)) /\ NoFetch
           ELSE /\ Issue([ call EXCEPT !.fid = AwaitedFid(GoogleKey(googleId)) ])
                /\ AwaitKey(GoogleKey(googleId))
        /\ NoHistory
        /\ CallFrame

\* getAllUsers()
GetAllUsers ==
    LET call == NewCall("getAllUsers", << >>, << >>, "", "")
    IN  /\ IF ~db
           THEN ReturnAtOnce(PlainReturn(call, << >>, FALSE)) /\ NoFetch
           ELSE IF isCacheValid(<< allUsersCacheRef >>, now)
           THEN ReturnAtOnce(PlainReturn(call, allUsersCacheRef.data, FALSE))
                /\ NoFetch
           ELSE /\ Issue([ call EXCEPT !.fid = AwaitedFid(AllUsersKey) ])
                /\ AwaitKey(AllUsersKey)
        /\ NoHistory
        /\ CallFrame

\* registerUser({username, password?, googleId?, friends: []}) up to its
\* first suspension: validation, then the existence check.
RegisterUser(username, password, googleId) ==
    LET call == NewCall("registerUser", username, username, password, googleId)
        validation == validateUsername(username)
    IN  /\ IF ~db
           THEN /\ ReturnAtOnce(PlainReturn(call,
                    [ success |-> FALSE, message |-> "Firebase not configured" ],
                    FALSE))
                /\ NoFetch /\ NoHistory
           ELSE IF ~validation.valid
           THEN /\ ReturnAtOnce(PlainReturn(call,
                    [ success |-> FALSE, message |-> validation.error ], FALSE))
                /\ NoFetch /\ NoHistory
           ELSE StartUserRead(call, normalizedUsername(call))
        /\ CallFrame

\* addFriend(currentUsername, targetUsername) up to its first suspension.
AddFriend(currentUsername, targetUsername) ==
    /\ StartUserRead(NewCall("addFriend", currentUsername, targetUsername, "", ""),
                     targetUsername)
    /\ CallFrame

\* removeFriend(currentUsername, targetUsername) up to its first suspension
\* (the dynamic import); the batch is committed when it resumes.
RemoveFriend(currentUsername, targetUsername) ==
    LET call == NewCall("removeFriend", currentUsername, targetUsername, "", "")
    IN  /\ IF ~db
           THEN ReturnAtOnce(PlainReturn(call, FALSE, FALSE))
           ELSE Issue([ call EXCEPT !.pc = "write" ])
        /\ NoFetch
        /\ NoHistory
        /\ CallFrame

\* clearUserCache()
ClearUserCache ==
    /\ ops < budget
    /\ ops' = ops + 1
    /\ userCache' = NoMap
    /\ allUsersCacheRef' = InvalidAllUsers
    /\ returned' = NoMap
    /\ NoReadInvoked
    /\ lastRead' = Forgotten(lastRead, { k \in DOMAIN lastRead : k[1] = "user" })
    /\ UNCHANGED << now, ticks, budget, remoteUsers, remotePhotos, photosCache,
                    remoteComments, commentsCache, requests, calls,
                    friendEpoch, lastFriendOp, dropped, vIn, vOut, extras >>

\* PhotoFeed.loadPhotos up to its await: invalidatePhotoCache(), then
\* getVisiblePhotos(user), whose getAllPhotos finds no cache and goes through
\* deduplicateRequest.  trigger is the photo of the event that called it,
\* none for the load on mount and for handleRefresh.
StartLoad(fl, trigger) ==
    LET d == photoDeduplicateRequest(photoPendingRequests, AllPhotosKey, nextFid)
    IN  /\ photosCache' = Null
        /\ IF d.fresh
           THEN /\ fetches' = MapSet(fetches, d.fid,
                       [ key |-> AllPhotosKey, read |-> FALSE, snap |-> << >> ])
                /\ photoPendingRequests' =
                       MapSet(photoPendingRequests, AllPhotosKey, d.fid)
                /\ nextFid' = nextFid + 1
           ELSE UNCHANGED << photoPendingRequests, fetches, nextFid >>
        /\ UNCHANGED pendingRequests
        /\ feedList' = << [ fl EXCEPT !.loads =
                              @ \cup { [ fid |-> d.fid, trigger |-> trigger ] } ] >>
        /\ dropped' = Dropped(dropped, { DropSlot(AllPhotosKey) })

\* The listeners a mounted feed has on photoDeleted, photoRestored and
\* photoUpdated run inside dispatchEvent: each calls loadPhotos.
FeedHears(events) ==
    IF IsNull(feedList) \/ events = << >>
    THEN UNCHANGED << photosCache, requests, feedList, dropped >>
    ELSE StartLoad(feedList[1], << events[1].photoId >>)

\* What a step of the feed's list leaves alone.
FeedListFrame ==
    /\ returned' = NoMap
    /\ NoReadInvoked
    /\ UNCHANGED << now, ticks, budget, remoteUsers, userCache,
                    allUsersCacheRef, remotePhotos, remoteComments,
                    commentsCache, calls, friendEpoch, lastFriendOp, lastRead,
                    vIn, vOut, reactionStore, paging, domEvents, app,
                    feedReactions, likeButton, deletedPhotos, undoToasts,
                    timers >>

\* PhotoFeed is mounted for the signed-in user: its effect calls loadPhotos
\* and registers the listeners.
MountFeed(user) ==
    /\ IsNull(feedList)
    /\ StartLoad([ user |-> user, photos |-> << >>, loads |-> {},
                   done |-> {} ], Null)
    /\ UNCHANGED ops
    /\ FeedListFrame

\* handleRefresh: loadPhotos once more.
RefreshFeed ==
    /\ ~IsNull(feedList)
    /\ ops < budget
    /\ ops' = ops + 1
    /\ StartLoad(feedList[1], Null)
    /\ FeedListFrame

\* loadPhotos resumes for the loads that awaited fetch f: setPhotos with the
\* photos visible to the user that are not marked deleted.
FeedLoaded(f, allPhotos) ==
    IF IsNull(feedList) THEN UNCHANGED feedList
    ELSE LET fl == feedList[1]
             waiting == { l \in fl.loads : l.fid = f }
             visiblePhotos == SelectSeq(allPhotos, LAMBDA photo :
                 photo.uploader = fl.user \/ fl.user \in Range(photo.tags))
             activePhotos == SelectSeq(visiblePhotos, LAMBDA photo : ~photo.deleted)
         IN  feedList' =
               IF waiting = {} THEN feedList
               ELSE << [ fl EXCEPT !.photos = activePhotos,
                                   !.loads = @ \ waiting,
                                   !.done = { l.trigger : l \in waiting } ] >>

\* ------------------------------------- photo.store and comment store calls
\* getAllPhotos() as called by `call`, up to its first suspension.
StartPhotosRead(call) ==
    LET d == photoDeduplicateRequest(photoPendingRequests, AllPhotosKey, nextFid)
    IN  /\ IF isPhotoCacheValid(photosCache, now)
           THEN /\ ReturnAtOnce(PlainReturn(call,
                       AfterPhotosRead(call, photosCache[1].data), FALSE))
                /\ NoFetch
                /\ ReadInvoked(AllPhotosKey, TRUE, FALSE)
           ELSE /\ Issue([ call EXCEPT !.fid = d.fid ])
                /\ IF d.fresh
                   THEN /\ fetches' = MapSet(fetches, d.fid,
                               [ key |-> AllPhotosKey, read |-> FALSE,
                                 snap |-> << >> ])
                        /\ photoPendingRequests' =
                               MapSet(photoPendingRequests, AllPhotosKey, d.fid)
                        /\ nextFid' = nextFid + 1
                   ELSE UNCHANGED << photoPendingRequests, fetches, nextFid >>
                /\ UNCHANGED pendingRequests
                /\ ReadInvoked(AllPhotosKey, FALSE, d.fresh)
        /\ CallFrame

\* getAllPhotos(), also behind prefetchPhotos().
GetAllPhotos == StartPhotosRead(NewCall("getAllPhotos", << >>, << >>, "", ""))

\* getVisiblePhotos(username)
GetVisiblePhotos(username) ==
    StartPhotosRead(NewCall("getVisiblePhotos", username, << >>, "", ""))

\* searchPhotos(photos, query) on the list a getVisiblePhotos call has
\* just handed back.
SearchPhotos(query) ==
    /\ \E c \in DOMAIN returned :
          /\ returned[c].op = "getVisiblePhotos"
          /\ ReturnAtOnce(PlainReturn(NewCall("searchPhotos", query, << >>, "", ""),
                                      searchPhotos(returned[c].result, query),
                                      FALSE))
    /\ NoFetch
    /\ NoHistory
    /\ CallFrame

\* savePhoto(photo) up to the await of its setDoc.
SavePhoto(photo) ==
    /\ Issue([ NewCall("savePhoto", photo.id, photo, "", "")
                 EXCEPT !.pc = "write" ])
    /\ NoFetch
    /\ NoHistory
    /\ CallFrame

\* getComments(photoId) up to its first suspension: there is no request
\* deduplication, every cache miss sends its own read.
StartCommentsRead(photoId, via) ==
    LET call == [ NewCall("getComments", photoId, << >>, "", "")
                    EXCEPT !.via = via ]
    IN  /\ IF ~db
           THEN /\ ReturnAtOnce(PlainReturn(call, << >>, FALSE))
                /\ NoFetch
                /\ ReadInvoked(CommentsKey(photoId), TRUE, FALSE)
           ELSE IF isCommentCacheValid(commentsCache, photoId, now)
           THEN /\ ReturnAtOnce(PlainReturn(call, commentsCache[photoId].data,
                                            FALSE))
                /\ NoFetch
                /\ ReadInvoked(CommentsKey(photoId), TRUE, FALSE)
           ELSE /\ Issue([ call EXCEPT !.fid = nextFid ])
                /\ fetches' = MapSet(fetches, nextFid,
                       [ key |-> CommentsKey(photoId), read |-> FALSE,
                         snap |-> << >> ])
                /\ nextFid' = nextFid + 1
                /\ UNCHANGED << pendingRequests, photoPendingRequests >>
                /\ ReadInvoked(CommentsKey(photoId), FALSE, TRUE)

GetComments(photoId) ==
    /\ StartCommentsRead(photoId, "store")
    /\ CallFrame

\* ------------------------------------------------- Comments component
\* The Comments component as first rendered for `user`.
CommentsOf(user) ==
    [ user |-> user, comments |-> << >>, isLoading |-> TRUE,
      isSubmitting |-> FALSE, delivered |-> Null ]

\* loadComments resumes in the component `view` with what its getComments
\* call, if it is among the returns `rets`, handed back.
Loaded(view, rets) ==
    LET done == { c \in DOMAIN rets :
                    rets[c].op = "getComments" /\ rets[c].via = "comments" }
    IN  IF IsNull(view) \/ done = {} THEN view
        ELSE << [ view[1] EXCEPT
                    !.comments = rets[CHOOSE c \in done : TRUE].result,
                    !.isLoading = FALSE ] >>

\* handleSubmit resumes in the component `view` with what its addComment
\* call, if it is among the returns `rets`, handed back: a comment is
\* appended to the list, null leaves the list alone.
Submitted(view, rets) ==
    LET done == { c \in DOMAIN rets :
                    rets[c].op = "addComment" /\ rets[c].via = "comments" }
    IN  IF IsNull(view) \/ done = {} THEN view
        ELSE << [ view[1] EXCEPT
                    !.comments = @ \o rets[CHOOSE c \in done : TRUE].result,
                    !.isSubmitting = FALSE ] >>

\* The component's effect on mount: loadComments starts and the listener
\* of subscribeToComments is registered.
MountComments(user) ==
    /\ IsNull(commentsView)
    /\ StartCommentsRead(FirstPhoto.id, "comments")
    /\ commentsView' = Loaded(<< CommentsOf(user) >>, returned')
    /\ UNCHANGED << reactionStore, paging, feed, domEvents, session >>
    /\ CoreCallFrame

\* The ids of the comments stored, being stored or listed for photoId.
CommentIdsInUse(photoId) ==
    { CommentDocs(remoteComments, photoId)[i].id :
        i \in DOMAIN CommentDocs(remoteComments, photoId) }
    \cup { calls[c].b.id : c \in { d \in DOMAIN calls :
                                      calls[d].op = "addComment" } }
    \cup { commentsView[1].comments[i].id :
             i \in DOMAIN commentsView[1].comments }

\* handleSubmit with newComment = text: nothing happens without a user,
\* with blank text or while a submit is under way; else addComment is
\* called with the trimmed text, up to the await of its setDoc.  rnd is the
\* Math.random() part of the comment id, which repeats no id in use.
HandleSubmit(text, rnd) ==
    /\ ~IsNull(commentsView)
    /\ trim(text) # << >>
    /\ ~commentsView[1].isSubmitting
    /\ << now, rnd >> \notin CommentIdsInUse(FirstPhoto.id)
    /\ LET photoId == FirstPhoto.id
           userId == commentsView[1].user
           sanitizedText == sanitizeCommentText(trim(text))
           comment == [ id |-> << now, rnd >>, photoId |-> photoId,
                        userId |-> userId, text |-> sanitizedText,
                        timestamp |-> now ]
           call == [ NewCall("addComment", photoId, comment, "", "")
                       EXCEPT !.input = << trim(text) >>, !.via = "comments" ]
       IN  IF ~db \/ sanitizedText = << >>
           THEN ReturnAtOnce(PlainReturn(call, Null, FALSE))
           ELSE Issue([ call EXCEPT !.pc = "write" ])
    /\ commentsView' =
          Submitted(<< [ commentsView[1] EXCEPT !.isSubmitting = TRUE ] >>,
                    returned')
    /\ NoFetch
    /\ NoHistory
    /\ UNCHANGED << reactionStore, paging, feed, domEvents, session >>
    /\ CoreCallFrame

\* The comments of photoId as the client's listeners see them: the remote
\* documents with the comments of the setDoc calls under way put in, in the
\* order of the calls.
RECURSIVE LocalComments(_, _)
LocalComments(list, writing) ==
    IF writing = {} THEN list
    ELSE LET c == CHOOSE x \in writing : \A y \in writing : x <= y
         IN  LocalComments(PutComment(list, calls[c].b), writing \ { c })

ListenedComments(photoId) ==
    LocalComments(CommentDocs(remoteComments, photoId),
                  { c \in DOMAIN calls :
                      /\ calls[c].op = "addComment"
                      /\ calls[c].pc = "write"
                      /\ calls[c].a = photoId })

\* The listener of subscribeToComments is called with a snapshot that differs
\* from the last one: it fills the cache and hands the comments to the
\* component, which replaces its list.
SnapshotArrives ==
    /\ ~IsNull(commentsView)
    /\ LET photoId == FirstPhoto.id
           comments == ListenedComments(photoId)
       IN  /\ commentsView[1].delivered # << comments >>
           /\ commentsCache' = MapSet(commentsCache, photoId,
                                      CacheEntry(comments, now))
           /\ lastRead' = Completed(lastRead, CommentsKey(photoId), TRUE)
           /\ dropped' = Recached(dropped, { DropSlot(CommentsKey(photoId)) })
           /\ commentsView' = << [ commentsView[1] EXCEPT
                                     !.comments = comments,
                                     !.isLoading = FALSE,
                                     !.delivered = << comments >> ] >>
    /\ returned' = NoMap
    /\ NoReadInvoked
    /\ UNCHANGED << remoteUsers, userCache, allUsersCacheRef, remotePhotos,
                    photosCache, remoteComments, requests, calls,
                    friendEpoch, lastFriendOp >>
    /\ UNCHANGED << reactionStore, paging, feed, domEvents, session >>
    /\ UNCHANGED << now, ticks, ops, budget, vIn, vOut >>

\* A seeded slip: addComment without the check of the sanitized text.
AddComment_noEmptyCheck(photoId, userId, text, rnd) ==
    LET sanitizedText == sanitizeCommentText(text)
        comment == [ id |-> << now, rnd >>, photoId |-> photoId,
                     userId |-> userId, text |-> sanitizedText,
                     timestamp |-> now ]
        call == [ NewCall("addComment", photoId, comment, "", "")
                    EXCEPT !.input = << text >> ]
    IN  /\ IF ~db
           THEN ReturnAtOnce(PlainReturn(call, Null, FALSE))
           ELSE Issue([ call EXCEPT !.pc = "write" ])
        /\ NoFetch
        /\ NoHistory
        /\ CallFrame

\* addComment(photoId, userId, text) up to the await of its setDoc; rnd is
\* the Math.random() part of the comment id.  (input: the text as given.)
AddComment(photoId, userId, text, rnd) ==
    LET sanitizedText == sanitizeCommentText(text)
        comment == [ id |-> << now, rnd >>, photoId |-> photoId,
                     userId |-> userId, text |-> sanitizedText,
                     timestamp |-> now ]
        call == [ NewCall("addComment", photoId, comment, "", "")
                    EXCEPT !.input = << text >> ]
    IN  /\ IF ~db \/ sanitizedText = << >>
           THEN ReturnAtOnce(PlainReturn(call, Null, FALSE))
           ELSE Issue([ call EXCEPT !.pc = "write" ])
        /\ NoFetch
        /\ NoHistory
        /\ CallFrame

\* deleteComment(photoId, commentId) up to the await of its deleteDoc.
DeleteComment(photoId, commentId) ==
    LET call == NewCall("deleteComment", photoId, commentId, "", "")
    IN  /\ IF ~db
           THEN ReturnAtOnce(PlainReturn(call, FALSE, FALSE))
           ELSE Issue([ call EXCEPT !.pc = "write" ])
        /\ NoFetch
        /\ NoHistory
        /\ CallFrame

\* A seeded slip: a call made while another is in flight waits for it, by
\* querying from the null cursor without touching the shared one.
GetPhotosPaginated_guarded(reset) ==
    LET busy == \E c \in DOMAIN calls : calls[c].op = "getPhotosPaginated"
        cursor == IF reset \/ busy THEN Null ELSE lastDoc
        call == NewCall("getPhotosPaginated", reset, << >>, "", "")
    IN  /\ lastDoc' = IF busy THEN lastDoc ELSE cursor
        /\ Issue([ call EXCEPT !.fid = nextFid ])
        /\ fetches' = MapSet(fetches, nextFid,
               [ key |-> PageKey(cursor), read |-> FALSE, snap |-> << >> ])
        /\ nextFid' = nextFid + 1
        /\ UNCHANGED << pendingRequests, photoPendingRequests >>
        /\ NoHistory
        /\ CoreCallFrame
        /\ UNCHANGED << reactionStore, pageLog, feed, domEvents, app >>

\* getPhotosPaginated(reset) up to the await of its getDocs: the query is
\* built from the cursor as it is now.
GetPhotosPaginated(reset) ==
    LET cursor == IF reset THEN Null ELSE lastDoc
        call == NewCall("getPhotosPaginated", reset, << >>, "", "")
    IN  /\ lastDoc' = cursor
        /\ Issue([ call EXCEPT !.fid = nextFid ])
        /\ fetches' = MapSet(fetches, nextFid,
               [ key |-> PageKey(cursor), read |-> FALSE, snap |-> << >> ])
        /\ nextFid' = nextFid + 1
        /\ UNCHANGED << pendingRequests, photoPendingRequests >>
        /\ NoHistory
        /\ CoreCallFrame
        /\ UNCHANGED << reactionStore, pageLog, feed, domEvents, app >>

\* -------------------------------------------------- reaction.store reads
\* getReactionCount(photoId) up to the await of its getDocs.
GetReactionCount(photoId) ==
    LET call == NewCall("getReactionCount", photoId, << >>, "", "")
    IN  /\ IF photoId \in DOMAIN reactionCountCache
           THEN /\ ReturnAtOnce(PlainReturn(call, reactionCountCache[photoId],
                                            FALSE))
                /\ NoFetch
           ELSE /\ Issue([ call EXCEPT !.fid = nextFid ])
                /\ fetches' = MapSet(fetches, nextFid,
                       [ key |-> CountKey(photoId), read |-> FALSE,
                         snap |-> << >> ])
                /\ nextFid' = nextFid + 1
                /\ UNCHANGED << pendingRequests, photoPendingRequests >>
        /\ NoHistory
        /\ CallFrame

\* hasUserLiked(photoId, userId) up to the await of its getDocs: a set
\* cached for the user answers for every photo.
HasUserLiked(photoId, userId) ==
    LET call == NewCall("hasUserLiked", photoId, userId, "", "")
    IN  /\ IF userId \in DOMAIN userReactionsCache
           THEN /\ ReturnAtOnce(PlainReturn(call,
                       photoId \in userReactionsCache[userId], FALSE))
                /\ NoFetch
           ELSE /\ Issue([ call EXCEPT !.fid = nextFid ])
                /\ fetches' = MapSet(fetches, nextFid,
                       [ key |-> LikedKey(photoId, userId), read |-> FALSE,
                         snap |-> << >> ])
                /\ nextFid' = nextFid + 1
                /\ UNCHANGED << pendingRequests, photoPendingRequests >>
        /\ NoHistory
        /\ CallFrame

\* loadReactionsForPhotos(photoIds, userId) up to the await of Promise.all:
\* one getDocs per photo is sent.
LoadReactionsForPhotos(photoIds, userId) ==
    LET n == Len(photoIds)
        call == [ NewCall("loadReactionsForPhotos", photoIds, userId, "", "")
                    EXCEPT !.pc = "load" ]
    IN  /\ n > 0
        /\ Issue(call)
        /\ fetches' = [ f \in (DOMAIN fetches) \cup (nextFid .. nextFid + n - 1) |->
                          IF f \in DOMAIN fetches THEN fetches[f]
                          ELSE [ key |-> LoadKey(photoIds[f - nextFid + 1],
                                                 userId, ops + 1),
                                 read |-> FALSE, snap |-> << >> ] ]
        /\ nextFid' = nextFid + n
        /\ loadResults' = MapSet(loadResults, ops + 1, NoMap)
        /\ UNCHANGED << pendingRequests, photoPendingRequests >>
        /\ NoHistory
        /\ CoreCallFrame
        /\ UNCHANGED << remoteReactions, reactionCaches, reactionEvents,
                        likeBase, paging, feed, domEvents, app >>

\* clearReactionCache()
ClearReactionCache ==
    /\ ops < budget
    /\ ops' = ops + 1
    /\ reactionCountCache' = NoMap
    /\ userReactionsCache' = NoMap
    /\ likeBase' = NoMap
    /\ returned' = NoMap
    /\ NoFetch
    /\ NoHistory
    /\ UNCHANGED calls
    /\ CoreCallFrame
    /\ UNCHANGED << remoteReactions, reactionEvents, loadResults, paging,
                    feed, domEvents, app >>

\* -------------------------------------------------- reaction.store toggle
\* A seeded slip: the liked set cached for the user decides.
isLiked_fromCache(remote, cache, photoId, userId) ==
    userId \in DOMAIN cache /\ photoId \in cache[userId]

\* existingDoc.exists() of toggleLike: the remote record decides, whatever
\* the cache holds.
isLiked(remote, cache, photoId, userId) ==
    DocExists(remote, reactionRef(photoId, userId))

\* A seeded slip: a like of a photo with no cached count starts from 1.
likedCount_fromOne(cache, photoId) ==
    (IF photoId \in DOMAIN cache /\ cache[photoId] # 0
     THEN cache[photoId] ELSE 1) + 1

\* (reactionCountCache.get(photoId) || 0) + 1
likedCount(cache, photoId) ==
    (IF photoId \in DOMAIN cache THEN cache[photoId] ELSE 0) + 1

\* Math.max(0, (reactionCountCache.get(photoId) || 1) - 1)
unlikedCount(cache, photoId) ==
    LET currentCount == IF photoId \in DOMAIN cache /\ cache[photoId] # 0
                        THEN cache[photoId] ELSE 1
    IN  IF currentCount - 1 > 0 THEN currentCount - 1 ELSE 0

\* userReactionsCache.get(userId) || new Set()
LikedSet(cache, userId) == IF userId \in DOMAIN cache THEN cache[userId] ELSE {}

\* The history entries of the photos in `photoIds` are forgotten: the cached
\* count of such a photo has been written.
BaseWithout(base, photoIds) ==
    [ k \in { k \in DOMAIN base : k[1] \notin photoIds } |-> base[k] ]

\* toggleLike(photoId, userId) up to the await of its getDoc, as called by
\* `via`.
StartToggle(photoId, userId, via) ==
    /\ ops < budget
    /\ ops' = ops + 1
    /\ calls' = MapSet([ c \in DOMAIN calls |-> [ calls[c] EXCEPT !.alone = FALSE ] ],
                       ops + 1,
                       [ NewCall("toggleLike", photoId, userId, "", "")
                           EXCEPT !.pc = "check", !.via = via ])
    /\ returned' = NoMap
    /\ NoFetch
    /\ NoHistory
    /\ CoreCallFrame
    /\ UNCHANGED << reactionStore, paging, domEvents, app >>

ToggleLike(photoId, userId) ==
    /\ StartToggle(photoId, userId, "store")
    /\ UNCHANGED feed

\* ------------------------------------------------ PhotoFeed and LikeButton
\* handleLike after its toggleLike settled: setReactions with the new state
\* of the photo, or (catch) a toast and no state change.
handleLikeSettled(reactions, ret) ==
    IF ret.threw THEN reactions
    ELSE LET current == ReactionOf(reactions, ret.a)
         IN  MapSet(reactions, ret.a,
                 [ count |-> IF ret.result THEN current.count + 1
                             ELSE IF current.count - 1 > 0
                                  THEN current.count - 1 ELSE 0,
                   isLiked |-> ret.result ])

\* Whether the promise of handleLike rejects: its catch handles every error
\* of toggleLike, so it never does.
handleLikeRejects(ret) == FALSE

\* LikeButton once onToggle has settled and the feed has re-rendered: the
\* catch reverts to the props of the click's render, the effect on
\* [isLiked, count] takes over props that changed, finally clears isPending.
ButtonSettled(button, props, newProps, rejected) ==
    LET caught == IF rejected
                  THEN [ button EXCEPT !.optimisticLiked = props.isLiked,
                                       !.optimisticCount = props.count ]
                  ELSE button
        synced == IF newProps # props
                  THEN [ caught EXCEPT !.optimisticLiked = newProps.isLiked,
                                       !.optimisticCount = newProps.count ]
                  ELSE caught
    IN  [ synced EXCEPT !.isPending = FALSE ]

\* LikeButton re-rendered with props changed by a toggle it did not start.
ButtonSynced(button, props, newProps) ==
    IF newProps # props
    THEN [ button EXCEPT !.optimisticLiked = newProps.isLiked,
                         !.optimisticCount = newProps.count,
                         !.failed = FALSE ]
    ELSE button

\* What the caller of the toggleLike call c does in the step that settles
\* it: nothing for the store's client; for the feed, handleLike's
\* continuation and the button's.
AfterToggle(c) ==
    IF calls[c].via = "store" \/ c \notin DOMAIN returned'
    THEN UNCHANGED feed
    ELSE LET ret == returned'[c]
             props == ReactionOf(feedReactions, ret.a)
             newProps == ReactionOf(handleLikeSettled(feedReactions, ret), ret.a)
         IN  /\ feedReactions' = handleLikeSettled(feedReactions, ret)
             /\ likeButton' =
                   IF ret.via = "button"
                   THEN [ ButtonSettled(likeButton, props, newProps,
                                        handleLikeRejects(ret))
                            EXCEPT !.failed = ret.threw /\ ret.alone ]
                   ELSE ButtonSynced(likeButton, props, newProps)
             /\ UNCHANGED feedDelete

\* A seeded slip: only the rate limit holds back a click on a button whose
\* onToggle is pending.
Click_noPendingCheck ==
    IF \/ likeButton.disabled
       \/ (now - likeButton.lastClick) * 60 * 1000 < RATE_LIMIT_MS
    THEN /\ likeButton' = [ likeButton EXCEPT !.ignored = TRUE ]
         /\ returned' = NoMap
         /\ NoFetch
         /\ NoHistory
         /\ CoreCallFrame
         /\ UNCHANGED << ops, calls, reactionStore, paging, domEvents, app,
                         feedReactions, feedDelete >>
    ELSE /\ likeButton' =
               [ likeButton EXCEPT
                   !.optimisticLiked = ~likeButton.optimisticLiked,
                   !.optimisticCount = IF likeButton.optimisticLiked
                                       THEN likeButton.optimisticCount - 1
                                       ELSE likeButton.optimisticCount + 1,
                   !.isPending = TRUE,
                   !.lastClick = now,
                   !.shownLiked = likeButton.optimisticLiked,
                   !.shownCount = likeButton.optimisticCount,
                   !.failed = FALSE,
                   !.ignored = FALSE ]
         /\ StartToggle(FirstPhoto.id, amy, "button")
         /\ UNCHANGED << feedReactions, feedDelete >>

\* LikeButton.handleClick on the button of the first photo, up to the await
\* of onToggle, which is handleLike up to the await of toggleLike.  A click
\* on a disabled button, while pending or less than RATE_LIMIT_MS after the
\* last accepted one returns at once; history: ignored marks that the last
\* click did.
Click ==
    IF \/ likeButton.disabled \/ likeButton.isPending
       \/ (now - likeButton.lastClick) * 60 * 1000 < RATE_LIMIT_MS
    THEN /\ likeButton' = [ likeButton EXCEPT !.ignored = TRUE ]
         /\ returned' = NoMap
         /\ NoFetch
         /\ NoHistory
         /\ CoreCallFrame
         /\ UNCHANGED << ops, calls, reactionStore, paging, domEvents, app,
                         feedReactions, feedDelete >>
    ELSE /\ likeButton' =
               [ likeButton EXCEPT
                   !.optimisticLiked = ~likeButton.optimisticLiked,
                   !.optimisticCount = IF likeButton.optimisticLiked
                                       THEN likeButton.optimisticCount - 1
                                       ELSE likeButton.optimisticCount + 1,
                   !.isPending = TRUE,
                   !.lastClick = now,
                   !.shownLiked = likeButton.optimisticLiked,
                   !.shownCount = likeButton.optimisticCount,
                   !.failed = FALSE,
                   !.ignored = FALSE ]
         /\ StartToggle(FirstPhoto.id, amy, "button")
         /\ UNCHANGED << feedReactions, feedDelete >>

\* handleDoubleTap: the second of two taps on the first photo less than
\* 300 ms apart calls handleLike, whatever the button is doing.
DoubleTap ==
    /\ StartToggle(FirstPhoto.id, amy, "doubleTap")
    /\ UNCHANGED feed

\* ------------------------------------------------- remote reads settle
\* What a step of the remote side leaves alone, unless it says otherwise.
CoreStepFrame == UNCHANGED << now, ticks, ops, budget, vIn, vOut >>

StepFrame == CoreStepFrame /\ UNCHANGED extras

\* The remote store evaluates a read that is in flight.
ServerRead(f) ==
    /\ f \in DOMAIN fetches
    /\ ~fetches[f].read
    /\ fetches' = [ fetches EXCEPT ![f] = [ @ EXCEPT !.read = TRUE,
                                              !.snap = RemoteRead(fetches[f].key) ] ]
    /\ returned' = NoMap
    /\ NoReadInvoked
    /\ UNCHANGED << stores, pendingRequests, photoPendingRequests, nextFid,
                    calls, friendEpoch, lastFriendOp, lastRead, dropped >>
    /\ StepFrame

\* A seeded slip: the key is unregistered only when the fetch succeeds.
Settle_keptOnFailure(f, res, failed) ==
    LET key == fetches[f].key
        waiting == { c \in DOMAIN calls :
                        calls[c].pc = "await" /\ calls[c].fid = f }
        k(c) == IF key[1] = "user" THEN AfterUserRead(calls[c], res)
                ELSE IF key[1] = "allPhotos"
                THEN [ done |-> TRUE, result |-> AfterPhotosRead(calls[c], res) ]
                ELSE [ done |-> TRUE, result |-> res ]
        finished == { c \in waiting : k(c).done }
    IN  /\ pendingRequests' = IF failed THEN pendingRequests
                            ELSE MapDelete(pendingRequests, key)
        /\ photoPendingRequests' = IF failed THEN photoPendingRequests
                                 ELSE MapDelete(photoPendingRequests, key)
        /\ fetches' = MapDelete(fetches, f)
        /\ calls' = [ c \in (DOMAIN calls) \ finished |->
                        IF c \in waiting
                        THEN [ calls[c] EXCEPT !.pc = "write" ]
                        ELSE calls[c] ]
        /\ returned' = [ c \in finished |->
                           PlainReturn(calls[c], k(c).result, failed) ]
        /\ NoReadInvoked
        /\ UNCHANGED << nextFid, friendEpoch, lastFriendOp >>

\* The promise of fetch f settles with `res`: the finally-handler drops the
\* pendingRequests entry and every call awaiting the promise resumes.
Settle(f, res, failed) ==
    LET key == fetches[f].key
        waiting == { c \in DOMAIN calls :
                        calls[c].pc = "await" /\ calls[c].fid = f }
        k(c) == IF key[1] = "user" THEN AfterUserRead(calls[c], res)
                ELSE IF key[1] = "allPhotos"
                THEN [ done |-> TRUE, result |-> AfterPhotosRead(calls[c], res) ]
                ELSE [ done |-> TRUE, result |-> res ]
        finished == { c \in waiting : k(c).done }
    IN  /\ pendingRequests' = MapDelete(pendingRequests, key)
        /\ photoPendingRequests' = MapDelete(photoPendingRequests, key)
        /\ fetches' = MapDelete(fetches, f)
        /\ calls' = [ c \in (DOMAIN calls) \ finished |->
                        IF c \in waiting
                        THEN [ calls[c] EXCEPT !.pc = "write" ]
                        ELSE calls[c] ]
        /\ returned' = [ c \in finished |->
                           PlainReturn(calls[c], k(c).result, failed) ]
        /\ NoReadInvoked
        /\ UNCHANGED << nextFid, friendEpoch, lastFriendOp >>

\* The response of a user.store read arrives: the fetcher fills the caches.
FetchResolve(f) ==
    /\ f \in DOMAIN fetches
    /\ fetches[f].read
    /\ fetches[f].key[1] \in { "user", "google", "allUsers" }
    /\ LET key == fetches[f].key
           snap == fetches[f].snap
       IN  /\ CASE key[1] = "user" ->
                     /\ userCache' = IF IsNull(snap) THEN userCache
                                     ELSE MapSet(userCache, key[2],
                                                 CacheEntry(snap[1], now))
                     /\ allUsersCacheRef' = allUsersCacheRef
                     /\ lastRead' = IF IsNull(snap)
                                    THEN CompletedEmpty(lastRead, key, FALSE)
                                    ELSE Completed(lastRead, key, TRUE)
                     /\ dropped' = IF IsNull(snap) THEN dropped
                                   ELSE Recached(dropped, { key[2] })
                [] key[1] = "google" ->
                     /\ userCache' = IF IsNull(snap) THEN userCache
                                     ELSE MapSet(userCache, snap[1].username,
                                                 CacheEntry(snap[1], now))
                     /\ allUsersCacheRef' = allUsersCacheRef
                     /\ lastRead' = IF IsNull(snap) THEN lastRead
                                    ELSE Refreshed(lastRead, { snap[1].username })
                     /\ dropped' = IF IsNull(snap) THEN dropped
                                   ELSE Recached(dropped, { snap[1].username })
                [] OTHER ->
                     /\ allUsersCacheRef' = CacheEntry(snap, now)
                     /\ userCache' = CacheAll(userCache, snap, now)
                     /\ lastRead' = Refreshed(lastRead,
                                       { snap[i].username : i \in DOMAIN snap })
                     /\ dropped' = Recached(dropped,
                                       { snap[i].username : i \in DOMAIN snap })
           /\ Settle(f, snap, FALSE)
    /\ AfterLogin(returned', fetches[f].snap)
    /\ UNCHANGED << remoteUsers, remotePhotos, photosCache, remoteComments,
                    commentsCache >>
    /\ UNCHANGED << reactionStore, paging, feed, commentsView >>
    /\ CoreStepFrame

\* The response of getAllPhotos' read arrives: sorted, cached, returned.
PhotosResolve(f) ==
    /\ f \in DOMAIN fetches
    /\ fetches[f].read
    /\ fetches[f].key[1] = "allPhotos"
    /\ LET photos == sortNewestFirst(fetches[f].snap)
       IN  /\ photosCache' = << CacheEntry(photos, now) >>
           /\ lastRead' = Completed(lastRead, fetches[f].key, TRUE)
           /\ dropped' = Recached(dropped, { DropSlot(fetches[f].key) })
           /\ Settle(f, photos, FALSE)
           /\ FeedLoaded(f, photos)
    /\ UNCHANGED << remoteUsers, userCache, allUsersCacheRef, remotePhotos,
                    remoteComments, commentsCache >>
    /\ UNCHANGED << reactionStore, paging, domEvents, app, feedReactions,
                    likeButton, deletedPhotos, undoToasts, timers >>
    /\ CoreStepFrame

\* The response of getComments' read arrives: cached, returned.
CommentsResolve(f) ==
    /\ f \in DOMAIN fetches
    /\ fetches[f].read
    /\ fetches[f].key[1] = "comments"
    /\ LET comments == fetches[f].snap
           photoId == fetches[f].key[2][1]
       IN  /\ commentsCache' = MapSet(commentsCache, photoId,
                                      CacheEntry(comments, now))
           /\ lastRead' = Completed(lastRead, fetches[f].key, TRUE)
           /\ dropped' = Recached(dropped, { DropSlot(fetches[f].key) })
           /\ Settle(f, comments, FALSE)
    /\ commentsView' = Loaded(commentsView, returned')
    /\ UNCHANGED << remoteUsers, userCache, allUsersCacheRef, remotePhotos,
                    photosCache, remoteComments >>
    /\ UNCHANGED << reactionStore, paging, feed, domEvents, session >>
    /\ CoreStepFrame

\* History: the paginated call that fetch f answers settles with the given
\* page, leaving the cursor at after.
Paged(f, page, failed, after) ==
    LET c == CHOOSE d \in DOMAIN calls : calls[d].fid = f
    IN  Append(pageLog, [ fid |-> f, reset |-> calls[c].a,
                          cursor |-> fetches[f].key[2], page |-> page,
                          failed |-> failed, before |-> lastDoc,
                          after |-> after ])

\* The response of getPhotosPaginated's read arrives: the cursor moves to
\* the last document of a page that is not empty.
PageResolve(f) ==
    /\ f \in DOMAIN fetches
    /\ fetches[f].read
    /\ fetches[f].key[1] = "page"
    /\ LET page == fetches[f].snap
           after == IF Len(page) = 0 THEN lastDoc ELSE << page[Len(page)] >>
       IN  /\ lastDoc' = after
           /\ pageLog' = Paged(f, page, FALSE, after)
           /\ Settle(f, page, FALSE)
    /\ UNCHANGED << stores, lastRead, dropped, reactionStore, feed, domEvents, app >>
    /\ CoreStepFrame

\* The response of getReactionCount's or hasUserLiked's read arrives: the
\* count is cached, the set hasUserLiked builds is thrown away.
ReactionReadResolve(f) ==
    /\ f \in DOMAIN fetches
    /\ fetches[f].read
    /\ fetches[f].key[1] \in { "reactionCount", "hasUserLiked" }
    /\ LET key == fetches[f].key
           snapshot == fetches[f].snap
       IN  IF key[1] = "reactionCount"
           THEN /\ reactionCountCache' =
                      MapSet(reactionCountCache, key[2][1], Cardinality(snapshot))
                /\ likeBase' = BaseWithout(likeBase, { key[2][1] })
                /\ Settle(f, Cardinality(snapshot), FALSE)
           ELSE /\ UNCHANGED << reactionCountCache, likeBase >>
                /\ Settle(f, SomeDocOf(snapshot, key[2][2]), FALSE)
    /\ UNCHANGED << stores, lastRead, dropped, remoteReactions,
                    userReactionsCache, reactionEvents, loadResults, paging,
                    feed, domEvents, app >>
    /\ CoreStepFrame

\* A seeded slip: one failed photo rejects the whole batch.
LoadSettle_allOrNothing(f, ok) ==
    LET key == fetches[f].key
        c == key[2][3]
        others == { g \in DOMAIN fetches :
                      ~(fetches[g].key[1] = "loadReactions"
                          /\ fetches[g].key[2][3] = c) }
    IN  /\ fetches' = IF ok THEN MapDelete(fetches, f)
                      ELSE [ g \in others |-> fetches[g] ]
        /\ UNCHANGED << pendingRequests, photoPendingRequests, nextFid >>
        /\ NoReadInvoked
        /\ IF ok
           THEN LET results == MapSet(loadResults[c], key[2][1],
                               [ count |-> Cardinality(fetches[f].snap),
                                 isLiked |-> SomeDocOf(fetches[f].snap, key[2][2]),
                                 failed |-> FALSE ])
                IN  IF DOMAIN results = Range(calls[c].a)
                    THEN /\ calls' = MapDelete(calls, c)
                         /\ returned' = MapSet(NoMap, c,
                                PlainReturn(calls[c], results, FALSE))
                         /\ loadResults' = MapDelete(loadResults, c)
                    ELSE /\ UNCHANGED calls
                         /\ returned' = NoMap
                         /\ loadResults' = MapSet(loadResults, c, results)
           ELSE /\ loadResults' = MapDelete(loadResults, c)
                /\ calls' = MapDelete(calls, c)
                /\ returned' = MapSet(NoMap, c, Throw(calls[c]))

\* One photo of a loadReactionsForPhotos call has its entry set: from the
\* snapshot, or by the catch as { count: 0, isLiked: false }.  When it is
\* the last one Promise.all resolves and the call returns the results.
LoadSettle(f, ok) ==
    LET key == fetches[f].key
        c == key[2][3]
        entry == IF ok
                 THEN [ count |-> Cardinality(fetches[f].snap),
                        isLiked |-> SomeDocOf(fetches[f].snap, key[2][2]),
                        failed |-> FALSE ]
                 ELSE [ count |-> 0, isLiked |-> FALSE, failed |-> TRUE ]
        results == MapSet(loadResults[c], key[2][1], entry)
    IN  /\ fetches' = MapDelete(fetches, f)
        /\ UNCHANGED << pendingRequests, photoPendingRequests, nextFid >>
        /\ NoReadInvoked
        /\ IF DOMAIN results = Range(calls[c].a)
           THEN /\ calls' = MapDelete(calls, c)
                /\ returned' = MapSet(NoMap, c,
                                      PlainReturn(calls[c], results, FALSE))
                /\ loadResults' = MapDelete(loadResults, c)
           ELSE /\ UNCHANGED calls
                /\ returned' = NoMap
                /\ loadResults' = MapSet(loadResults, c, results)

\* The response of one getDocs of loadReactionsForPhotos arrives: the count
\* is cached and a liked photo joins the user's cached set.
LoadResolve(f) ==
    /\ f \in DOMAIN fetches
    /\ fetches[f].read
    /\ fetches[f].key[1] = "loadReactions"
    /\ LET photoId == fetches[f].key[2][1]
           userId == fetches[f].key[2][2]
           snapshot == fetches[f].snap
       IN  /\ reactionCountCache' =
                 MapSet(reactionCountCache, photoId, Cardinality(snapshot))
           /\ userReactionsCache' =
                 IF SomeDocOf(snapshot, userId)
                 THEN MapSet(userReactionsCache, userId,
                             LikedSet(userReactionsCache, userId) \cup { photoId })
                 ELSE userReactionsCache
           /\ likeBase' = BaseWithout(likeBase, { photoId })
    /\ LoadSettle(f, TRUE)
    /\ UNCHANGED << stores, friendEpoch, lastFriendOp, lastRead, dropped,
                    remoteReactions, reactionEvents, paging, feed, domEvents, app >>
    /\ CoreStepFrame

\* One getDocs of loadReactionsForPhotos fails: its catch sets the default.
LoadReject(f) ==
    /\ f \in DOMAIN fetches
    /\ fetches[f].key[1] = "loadReactions"
    /\ LoadSettle(f, FALSE)
    /\ UNCHANGED << stores, friendEpoch, lastFriendOp, lastRead, dropped,
                    remoteReactions, reactionCaches, reactionEvents, likeBase,
                    paging, feed, domEvents, app >>
    /\ CoreStepFrame

\* What the catch block of a read hands back.
FailedRead(key) ==
    CASE key[1] = "reactionCount" -> 0
      [] key[1] = "hasUserLiked" -> FALSE
      [] OTHER -> << >>

\* The reads whose catch block turns the error into a value.
CaughtReads ==
    { "user", "google", "allUsers", "allPhotos", "comments", "page",
      "reactionCount", "hasUserLiked" }

\* A seeded slip: the catch of getAllPhotos caches the empty list it returns.
FetchReject_cachesEmpty(f) ==
    /\ f \in DOMAIN fetches
    /\ fetches[f].key[1] \in CaughtReads
    /\ Settle(f, FailedRead(fetches[f].key), TRUE)
    /\ lastRead' = IF fetches[f].key[1] \in { "user", "allPhotos", "comments" }
                   THEN CompletedEmpty(lastRead, fetches[f].key, TRUE)
                   ELSE lastRead
    /\ photosCache' = IF fetches[f].key[1] = "allPhotos"
                      THEN << CacheEntry(<< >>, now) >> ELSE photosCache
    /\ UNCHANGED << remoteUsers, userCache, allUsersCacheRef, remotePhotos,
                    remoteComments, commentsCache, dropped >>
    /\ pageLog' = IF fetches[f].key[1] = "page"
                  THEN Paged(f, << >>, TRUE, lastDoc) ELSE pageLog
    /\ FeedLoaded(f, << >>)
    /\ commentsView' = Loaded(commentsView, returned')
    /\ UNCHANGED << reactionStore, lastDoc, domEvents, session, feedReactions,
                    likeButton, deletedPhotos, undoToasts, timers >>
    /\ CoreStepFrame

\* The read fails in transport: the catch turns the error into the safe
\* default (null, [], 0 or false) and nothing is cached.
FetchReject(f) ==
    /\ f \in DOMAIN fetches
    /\ fetches[f].key[1] \in CaughtReads
    /\ Settle(f, FailedRead(fetches[f].key), TRUE)
    /\ lastRead' = IF fetches[f].key[1] \in { "user", "allPhotos", "comments" }
                   THEN CompletedEmpty(lastRead, fetches[f].key, TRUE)
                   ELSE lastRead
    /\ UNCHANGED << stores, dropped >>
    /\ pageLog' = IF fetches[f].key[1] = "page"
                  THEN Paged(f, << >>, TRUE, lastDoc) ELSE pageLog
    /\ FeedLoaded(f, << >>)
    /\ commentsView' = Loaded(commentsView, returned')
    /\ UNCHANGED << reactionStore, lastDoc, domEvents, session, feedReactions,
                    likeButton, deletedPhotos, undoToasts, timers >>
    /\ CoreStepFrame

\* ------------------------------------------------------- remote writes
Finish(c, ret) ==
    /\ calls' = MapDelete(calls, c)
    /\ returned' = MapSet(NoMap, c, ret)
    /\ NoReadInvoked
    /\ UNCHANGED requests

\* registerUser resumes after the existence check found nothing: it hashes
\* the password, writes the record with setDoc and updates the caches, or
\* the write fails and the catch reports it.
RegisterWrite(c) ==
    /\ c \in DOMAIN calls
    /\ calls[c].op = "registerUser" /\ calls[c].pc = "write"
    /\ LET call == calls[c]
           n == normalizedUsername(call)
           userToSave ==
               [ username |-> n, friends |-> << >>,
                 password |-> IF call.pw # "" THEN hashPassword(call.pw)
                              ELSE Null,
                 googleId |-> call.gid ]
       IN  \E ok \in BOOLEAN :
             IF ok
             THEN /\ remoteUsers' = MapSet(remoteUsers, n, userToSave)
                  /\ userCache' = MapSet(userCache, n, CacheEntry(userToSave, now))
                  /\ allUsersCacheRef' = AllUsersAfterRegister(allUsersCacheRef)
                  /\ lastRead' = Refreshed(lastRead, { n })
                  /\ dropped' = Recached(dropped, { n })
                  /\ Finish(c, Return(call, [ success |-> TRUE ], FALSE, TRUE,
                                      n \in DOMAIN remoteUsers, FALSE))
             ELSE /\ UNCHANGED << remoteUsers, userCache, allUsersCacheRef,
                                  lastRead, dropped >>
                  /\ Finish(c, PlainReturn(call,
                        [ success |-> FALSE, message |-> "Registration failed" ],
                        TRUE))
    /\ UNCHANGED << remotePhotos, photosCache, remoteComments, commentsCache,
                    friendEpoch, lastFriendOp >>
    /\ StepFrame

\* Whether a batch of updates to these documents can commit: update fails
\* on a document that does not exist, and then the whole batch fails.
BatchCanCommit(remote, a, b) == a \in DOMAIN remote /\ b \in DOMAIN remote

\* addFriend resumes after the target was found: one batch adds each user
\* to the other's friends; on success both cache entries are dropped.
AddFriendCommit(c) ==
    /\ c \in DOMAIN calls
    /\ calls[c].op = "addFriend" /\ calls[c].pc = "write"
    /\ LET call == calls[c]
           a == call.a
           b == call.b
       IN  \E ok \in BOOLEAN :
             IF ok /\ BatchCanCommit(remoteUsers, a, b)
             THEN /\ remoteUsers' =
                        LET r1 == UpdateFriends(remoteUsers, a,
                                      arrayUnion(remoteUsers[a].friends, b))
                        IN  UpdateFriends(r1, b, arrayUnion(r1[b].friends, a))
                  /\ userCache' = InvalidateFriendCaches(userCache, a, b)
                  /\ friendEpoch' = friendEpoch + 1
                  /\ lastFriendOp' = MapSet(lastFriendOp, Pair(a, b), "added")
                  /\ lastRead' = Forgotten(lastRead, { UserKey(a), UserKey(b) })
                  /\ dropped' = Dropped(dropped, { a, b })
                  /\ Finish(c, Return(call, TRUE, FALSE, TRUE, FALSE,
                                      b \in Range(remoteUsers[a].friends)))
             ELSE /\ UNCHANGED << remoteUsers, userCache, friendEpoch,
                                  lastFriendOp, lastRead, dropped >>
                  /\ Finish(c, PlainReturn(call, FALSE, TRUE))
    /\ UNCHANGED << allUsersCacheRef, remotePhotos, photosCache,
                    remoteComments, commentsCache >>
    /\ StepFrame

\* removeFriend resumes: one batch removes each user from the other's
\* friends; on success both cache entries are dropped.
RemoveFriendCommit(c) ==
    /\ c \in DOMAIN calls
    /\ calls[c].op = "removeFriend" /\ calls[c].pc = "write"
    /\ LET call == calls[c]
           a == call.a
           b == call.b
       IN  \E ok \in BOOLEAN :
             IF ok /\ BatchCanCommit(remoteUsers, a, b)
             THEN /\ remoteUsers' =
                        LET r1 == UpdateFriends(remoteUsers, a,
                                      arrayRemove(remoteUsers[a].friends, b))
                        IN  UpdateFriends(r1, b, arrayRemove(r1[b].friends, a))
                  /\ userCache' = InvalidateFriendCaches(userCache, a, b)
                  /\ friendEpoch' = friendEpoch + 1
                  /\ lastFriendOp' = MapSet(lastFriendOp, Pair(a, b), "removed")
                  /\ lastRead' = Forgotten(lastRead, { UserKey(a), UserKey(b) })
                  /\ dropped' = Dropped(dropped, { a, b })
                  /\ Finish(c, Return(call, TRUE, FALSE, TRUE, FALSE,
                                      b \in Range(remoteUsers[a].friends)))
             ELSE /\ UNCHANGED << remoteUsers, userCache, friendEpoch,
                                  lastFriendOp, lastRead, dropped >>
                  /\ Finish(c, PlainReturn(call, FALSE, TRUE))
    /\ UNCHANGED << allUsersCacheRef, remotePhotos, photosCache,
                    remoteComments, commentsCache >>
    /\ StepFrame

\* A seeded slip: savePhoto leaves the photo cache as it is.
SavePhotoWrite_keepsCache(c) ==
    /\ c \in DOMAIN calls
    /\ calls[c].op = "savePhoto" /\ calls[c].pc = "write"
    /\ LET call == calls[c]
           photo == call.b
       IN  \E ok \in BOOLEAN :
             IF ok
             THEN /\ remotePhotos' = MapSet(remotePhotos, photo.id, photo)
                  /\ UNCHANGED photosCache
                  /\ lastRead' = Forgotten(lastRead, { AllPhotosKey })
                  /\ dropped' = Dropped(dropped, { DropSlot(AllPhotosKey) })
                  /\ UNCHANGED app
                  /\ domEvents' = Append(domEvents,
                                         Event("photoUploaded", photo.id))
                  /\ Finish(c, Return(call, TRUE, FALSE, TRUE,
                                      photo.id \in DOMAIN remotePhotos, FALSE))
             ELSE /\ UNCHANGED << remotePhotos, photosCache, lastRead,
                                  dropped, domEvents, app >>
                  /\ Finish(c, PlainReturn(call, FALSE, TRUE))
    /\ UNCHANGED << remoteUsers, userCache, allUsersCacheRef, remoteComments,
                    commentsCache, friendEpoch, lastFriendOp >>
    /\ UNCHANGED << reactionStore, paging, feed >>
    /\ CoreStepFrame

\* savePhoto resumes: setDoc stored the photo, the photo cache is dropped
\* and photoUploaded dispatched, or the write failed.
SavePhotoWrite(c) ==
    /\ c \in DOMAIN calls
    /\ calls[c].op = "savePhoto" /\ calls[c].pc = "write"
    /\ LET call == calls[c]
           photo == call.b
       IN  \E ok \in BOOLEAN :
             IF ok
             THEN /\ remotePhotos' = MapSet(remotePhotos, photo.id, photo)
                  /\ photosCache' = Null
                  /\ lastRead' = Forgotten(lastRead, { AllPhotosKey })
                  /\ dropped' = Dropped(dropped, { DropSlot(AllPhotosKey) })
                  /\ UNCHANGED app
                  /\ domEvents' = Append(domEvents,
                                         Event("photoUploaded", photo.id))
                  /\ Finish(c, Return(call, TRUE, FALSE, TRUE,
                                      photo.id \in DOMAIN remotePhotos, FALSE))
             ELSE /\ UNCHANGED << remotePhotos, photosCache, lastRead,
                                  dropped, domEvents, app >>
                  /\ Finish(c, PlainReturn(call, FALSE, TRUE))
    /\ UNCHANGED << remoteUsers, userCache, allUsersCacheRef, remoteComments,
                    commentsCache, friendEpoch, lastFriendOp >>
    /\ UNCHANGED << reactionStore, paging, feed >>
    /\ CoreStepFrame

\* A seeded slip: addComment clears the whole comment cache.
AddCommentWrite_clearsAll(c) ==
    /\ c \in DOMAIN calls
    /\ calls[c].op = "addComment" /\ calls[c].pc = "write"
    /\ LET call == calls[c]
           photoId == call.a
           comment == call.b
       IN  \E ok \in BOOLEAN :
             IF ok
             THEN /\ remoteComments' =
                        MapSet(remoteComments, photoId,
                               PutComment(CommentDocs(remoteComments, photoId),
                                          comment))
                  /\ commentsCache' = NoMap
                  /\ lastRead' = Forgotten(lastRead, { CommentsKey(photoId) })
                  /\ dropped' = Dropped(dropped,
                                        { DropSlot(CommentsKey(photoId)) })
                  /\ domEvents' = Append(domEvents,
                                         Event("commentAdded", photoId))
                  /\ Finish(c, Return(call, << comment >>, FALSE, TRUE, FALSE,
                                      FALSE))
             ELSE /\ UNCHANGED << remoteComments, commentsCache, lastRead,
                                  dropped, domEvents >>
                  /\ Finish(c, PlainReturn(call, Null, TRUE))
    /\ commentsView' = Submitted(commentsView, returned')
    /\ UNCHANGED session
    /\ UNCHANGED << remoteUsers, userCache, allUsersCacheRef, remotePhotos,
                    photosCache, friendEpoch, lastFriendOp >>
    /\ UNCHANGED << reactionStore, paging, feed >>
    /\ CoreStepFrame

\* addComment resumes: setDoc stored the comment, the photo's cached
\* comments are dropped and commentAdded dispatched, or the write failed.
AddCommentWrite(c) ==
    /\ c \in DOMAIN calls
    /\ calls[c].op = "addComment" /\ calls[c].pc = "write"
    /\ LET call == calls[c]
           photoId == call.a
           comment == call.b
       IN  \E ok \in BOOLEAN :
             IF ok
             THEN /\ remoteComments' =
                        MapSet(remoteComments, photoId,
                               PutComment(CommentDocs(remoteComments, photoId),
                                          comment))
                  /\ commentsCache' = MapDelete(commentsCache, photoId)
                  /\ lastRead' = Forgotten(lastRead, { CommentsKey(photoId) })
                  /\ dropped' = Dropped(dropped,
                                        { DropSlot(CommentsKey(photoId)) })
                  /\ domEvents' = Append(domEvents,
                                         Event("commentAdded", photoId))
                  /\ Finish(c, Return(call, << comment >>, FALSE, TRUE, FALSE,
                                      FALSE))
             ELSE /\ UNCHANGED << remoteComments, commentsCache, lastRead,
                                  dropped, domEvents >>
                  /\ Finish(c, PlainReturn(call, Null, TRUE))
    /\ commentsView' = Submitted(commentsView, returned')
    /\ UNCHANGED session
    /\ UNCHANGED << remoteUsers, userCache, allUsersCacheRef, remotePhotos,
                    photosCache, friendEpoch, lastFriendOp >>
    /\ UNCHANGED << reactionStore, paging, feed >>
    /\ CoreStepFrame

\* deleteDoc of a comment: the document with that id, if any, is gone.
RemoveComment(list, commentId) ==
    SelectSeq(list, LAMBDA d : d.id # commentId)

\* deleteComment resumes: deleteDoc removed the comment, the photo's cached
\* comments are dropped and commentDeleted dispatched, or the delete failed.
DeleteCommentWrite(c) ==
    /\ c \in DOMAIN calls
    /\ calls[c].op = "deleteComment" /\ calls[c].pc = "write"
    /\ LET call == calls[c]
           photoId == call.a
           commentId == call.b
       IN  \E ok \in BOOLEAN :
             IF ok
             THEN /\ remoteComments' =
                        [ p \in DOMAIN remoteComments |->
                            IF p = photoId
                            THEN RemoveComment(remoteComments[p], commentId)
                            ELSE remoteComments[p] ]
                  /\ commentsCache' = MapDelete(commentsCache, photoId)
                  /\ lastRead' = Forgotten(lastRead, { CommentsKey(photoId) })
                  /\ dropped' = Dropped(dropped,
                                        { DropSlot(CommentsKey(photoId)) })
                  /\ UNCHANGED app
                  /\ domEvents' = Append(domEvents,
                                         Event("commentDeleted", photoId))
                  /\ Finish(c, Return(call, TRUE, FALSE, TRUE, FALSE, FALSE))
             ELSE /\ UNCHANGED << remoteComments, commentsCache, lastRead,
                                  dropped, domEvents, app >>
                  /\ Finish(c, PlainReturn(call, FALSE, TRUE))
    /\ UNCHANGED << remoteUsers, userCache, allUsersCacheRef, remotePhotos,
                    photosCache, friendEpoch, lastFriendOp >>
    /\ UNCHANGED << reactionStore, paging, feed >>
    /\ CoreStepFrame

\* ------------------------------------------------------------ media.store
\* onProgress?.({ progress, state })
Reported(call, progress, state) ==
    [ call EXCEPT !.progress = Append(@, [ progress |-> progress,
                                           state |-> state ]) ]

\* uploadImage(file, uploader, tags, onProgress) with Cloudinary configured,
\* up to xhr.send(): an invalid file rejects at once, else the photo id is
\* made up and the binary upload starts.
UploadImage(file, id, uploader, tags) ==
    LET call == NewCall("uploadImage", id,
                        [ uploader |-> uploader, tags |-> tags ], "", "")
    IN  /\ id \notin DOMAIN remotePhotos
        /\ \A c \in DOMAIN calls : calls[c].op = "uploadImage" => calls[c].a # id
        /\ IF ~validateImage(file).valid
           THEN ReturnAtOnce(Throw(Reported(call, 0, "error")))
           ELSE Issue([ Reported(call, 5, "uploading") EXCEPT !.pc = "upload" ])
        /\ NoFetch
        /\ NoHistory
        /\ CallFrame

\* A 'progress' event of the upload with all bytes sent:
\* Math.round((e.loaded / e.total) * 90) + 5.
UploadProgressed(c) ==
    /\ c \in DOMAIN calls
    /\ calls[c].op = "uploadImage" /\ calls[c].pc = "upload"
    /\ calls[c].progress[Len(calls[c].progress)].progress < 90 + 5
    /\ calls' = [ calls EXCEPT ![c] = Reported(@, 90 + 5, "uploading") ]
    /\ returned' = NoMap
    /\ NoReadInvoked
    /\ UNCHANGED << stores, requests, friendEpoch, lastFriendOp, lastRead,
                    dropped >>
    /\ StepFrame

\* The 'load' (status 200 or not) or 'error' event of the binary upload:
\* on success the photo record is built and its setDoc awaited.
UploadSettle(c) ==
    /\ c \in DOMAIN calls
    /\ calls[c].op = "uploadImage" /\ calls[c].pc = "upload"
    /\ \E ok \in BOOLEAN :
          IF ok
          THEN /\ calls' = [ calls EXCEPT ![c] =
                     [ @ EXCEPT !.pc = "write",
                                !.b = Photo(calls[c].a, calls[c].b.uploader,
                                            calls[c].b.tags, now) ] ]
               /\ returned' = NoMap
               /\ NoReadInvoked
               /\ UNCHANGED requests
          ELSE Finish(c, Throw(Reported(calls[c], 0, "error")))
    /\ UNCHANGED << stores, friendEpoch, lastFriendOp, lastRead, dropped >>
    /\ StepFrame

\* A seeded slip: photoUploaded is dispatched before the setDoc is awaited.
UploadImageWrite_eventFirst(c) ==
    /\ c \in DOMAIN calls
    /\ calls[c].op = "uploadImage" /\ calls[c].pc = "write"
    /\ LET photoRecord == calls[c].b
       IN  /\ UNCHANGED app
           /\ domEvents' = Append(domEvents, Event("photoUploaded", photoRecord.id))
           /\ \E ok \in BOOLEAN :
                IF ok
                THEN /\ remotePhotos' = MapSet(remotePhotos, photoRecord.id,
                                               photoRecord)
                     /\ Finish(c, Return(Reported(calls[c], 100, "success"),
                                         << photoRecord >>, FALSE, TRUE,
                                         FALSE, FALSE))
                ELSE /\ UNCHANGED remotePhotos
                     /\ Finish(c, Throw(Reported(calls[c], 0, "error")))
    /\ UNCHANGED << remoteUsers, userCache, allUsersCacheRef, photosCache,
                    remoteComments, commentsCache, friendEpoch, lastFriendOp,
                    lastRead, dropped >>
    /\ UNCHANGED << reactionStore, paging, feed >>
    /\ CoreStepFrame

\* uploadImage resumes after setDoc: the record is stored, progress 100 is
\* reported, photoUploaded dispatched and the promise resolves with the
\* record; or the write failed and the promise rejects.  The photo cache of
\* photo.store is not touched.
UploadImageWrite(c) ==
    /\ c \in DOMAIN calls
    /\ calls[c].op = "uploadImage" /\ calls[c].pc = "write"
    /\ LET photoRecord == calls[c].b
       IN  \E ok \in BOOLEAN :
             IF ok
             THEN /\ remotePhotos' = MapSet(remotePhotos, photoRecord.id,
                                            photoRecord)
                  /\ UNCHANGED app
                  /\ domEvents' = Append(domEvents,
                                         Event("photoUploaded", photoRecord.id))
                  /\ Finish(c, Return(Reported(calls[c], 100, "success"),
                                      << photoRecord >>, FALSE, TRUE,
                                      FALSE, FALSE))
             ELSE /\ UNCHANGED << remotePhotos, domEvents, app >>
                  /\ Finish(c, Throw(Reported(calls[c], 0, "error")))
    /\ UNCHANGED << remoteUsers, userCache, allUsersCacheRef, photosCache,
                    remoteComments, commentsCache, friendEpoch, lastFriendOp,
                    lastRead, dropped >>
    /\ UNCHANGED << reactionStore, paging, feed >>
    /\ CoreStepFrame

\* updatePhotoTags / softDeletePhoto / restorePhoto / permanentlyDeletePhoto
\* as called by `via`, up to the await of the updateDoc / deleteDoc.
StartMedia(op, photoId, arg, via) ==
    /\ Issue([ NewCall(op, photoId, arg, "", "")
                 EXCEPT !.pc = "write", !.via = via ])
    /\ NoFetch
    /\ NoHistory
    /\ CoreCallFrame
    /\ UNCHANGED << reactionStore, paging, domEvents, app >>

UpdatePhotoTags(photoId, newTags) ==
    StartMedia("updatePhotoTags", photoId, newTags, "store") /\ UNCHANGED feed

SoftDeletePhoto(photoId) ==
    StartMedia("softDeletePhoto", photoId, << >>, "store") /\ UNCHANGED feed

RestorePhoto(photoId) ==
    StartMedia("restorePhoto", photoId, << >>, "store") /\ UNCHANGED feed

PermanentlyDeletePhoto(photoId) ==
    StartMedia("permanentlyDeletePhoto", photoId, << >>, "store")
        /\ UNCHANGED feed

\* What the feed does in the step that settles the media.store call c it
\* made: handleDelete after softDeletePhoto sets the grace timer, records it
\* in deletedPhotos and shows the toast whose Undo closes over the
\* deletedPhotos of the render that handled the click (kept in the call);
\* the timer callback after permanentlyDeletePhoto drops the deletedPhotos
\* entry.  A call of the store's client has no such continuation.
AfterMedia(c) ==
    IF calls[c].via = "store"
    THEN UNCHANGED << feedReactions, likeButton, deletedPhotos, undoToasts,
                      timers >>
    ELSE LET ret == returned'[c]
         IN  /\ CASE ret.op = "softDeletePhoto" /\ ret.result ->
                       /\ timers' = MapSet(timers, c,
                             [ photoId |-> ret.a, setAt |-> now ])
                       /\ deletedPhotos' = MapSet(deletedPhotos, ret.a, c)
                       /\ undoToasts' = MapSet(undoToasts, c,
                             [ photoId |-> ret.a, seen |-> ret.b,
                               shownAt |-> now, clicked |-> FALSE,
                               inTime |-> FALSE ])
                  [] ret.op = "permanentlyDeletePhoto" ->
                       /\ deletedPhotos' = MapDelete(deletedPhotos, ret.a)
                       /\ UNCHANGED << timers, undoToasts >>
                  [] OTHER -> UNCHANGED << deletedPhotos, undoToasts, timers >>
             /\ UNCHANGED << feedReactions, likeButton >>

\* A media.store mutation resumes after its remote write: `stored` is the
\* photo collection after it, `events` what it dispatches.  A write that
\* cannot be applied, or fails in transport, makes the catch return false.
MediaWrite(c, op, applies, stored, events) ==
    /\ c \in DOMAIN calls
    /\ calls[c].op = op /\ calls[c].pc = "write"
    /\ \E ok \in BOOLEAN :
          IF ok /\ applies
          THEN /\ remotePhotos' = stored
               /\ UNCHANGED app
               /\ domEvents' = domEvents \o events
               /\ returned' = MapSet(NoMap, c, Return(calls[c], TRUE, FALSE,
                                                      TRUE, FALSE, FALSE))
               /\ FeedHears(events)
          ELSE /\ UNCHANGED << remotePhotos, domEvents, app >>
               /\ returned' = MapSet(NoMap, c,
                                     PlainReturn(calls[c], FALSE, TRUE))
               /\ FeedHears(<< >>)
    /\ calls' = MapDelete(calls, c)
    /\ NoReadInvoked
    /\ AfterMedia(c)
    /\ UNCHANGED << remoteUsers, userCache, allUsersCacheRef,
                    remoteComments, commentsCache, friendEpoch, lastFriendOp,
                    lastRead >>
    /\ UNCHANGED << reactionStore, paging >>
    /\ CoreStepFrame

\* updateDoc(doc(db, 'photos', photoId), fields) on an existing document.
UpdateDoc(remote, photoId, fields) ==
    [ remote EXCEPT ![photoId] =
        [ k \in DOMAIN @ |-> IF k \in DOMAIN fields THEN fields[k] ELSE @[k] ] ]

\* updatePhotoTags resumes: updateDoc set the tags and photoUpdated is
\* dispatched, or the update failed (as it does when the record is gone).
UpdatePhotoTagsWrite(c) ==
    MediaWrite(c, "updatePhotoTags", calls[c].a \in DOMAIN remotePhotos,
               UpdateDoc(remotePhotos, calls[c].a, [ tags |-> calls[c].b ]),
               << Event("photoUpdated", calls[c].a) >>)

\* softDeletePhoto resumes: updateDoc set deleted: true and photoDeleted is
\* dispatched, or the update failed.
SoftDeletePhotoWrite(c) ==
    MediaWrite(c, "softDeletePhoto", calls[c].a \in DOMAIN remotePhotos,
               UpdateDoc(remotePhotos, calls[c].a, [ deleted |-> TRUE ]),
               << Event("photoDeleted", calls[c].a) >>)

\* restorePhoto resumes: updateDoc set deleted: false and photoRestored is
\* dispatched, or the update failed.
RestorePhotoWrite(c) ==
    MediaWrite(c, "restorePhoto", calls[c].a \in DOMAIN remotePhotos,
               UpdateDoc(remotePhotos, calls[c].a, [ deleted |-> FALSE ]),
               << Event("photoRestored", calls[c].a) >>)

\* permanentlyDeletePhoto resumes: deleteDoc removed the record, and no
\* event is dispatched, or the delete failed.
PermanentlyDeletePhotoWrite(c) ==
    MediaWrite(c, "permanentlyDeletePhoto", TRUE,
               MapDelete(remotePhotos, calls[c].a), << >>)

\* --------------------------------------------- PhotoFeed delete and undo
\* handleDelete(photo) by the photo's uploader, up to the await of
\* softDeletePhoto.
HandleDelete(user, photo) ==
    /\ photo.uploader = user
    /\ StartMedia("softDeletePhoto", photo.id, deletedPhotos, "feed")
    /\ UNCHANGED feed

\* A click on Undo of a 'Photo deleted' toast that is still on screen:
\* handleUndo(photoId) looks the photo up in the deletedPhotos its closure
\* holds and returns when it is not there; else it clears the timer, drops
\* the deletedPhotos entry and awaits restorePhoto.  The toast is hidden.
Undo(t) ==
    /\ t \in DOMAIN undoToasts
    /\ ~undoToasts[t].clicked
    /\ (now - undoToasts[t].shownAt) * 60 * 1000 < UNDO_TOAST_MS
    /\ LET photoId == undoToasts[t].photoId
           deletedSeen == undoToasts[t].seen
       IN  /\ undoToasts' = [ undoToasts EXCEPT ![t] =
                  [ @ EXCEPT !.clicked = TRUE, !.inTime = t \in DOMAIN timers ] ]
           /\ IF photoId \notin DOMAIN deletedSeen
              THEN /\ UNCHANGED << ops, calls, timers, deletedPhotos >>
                   /\ returned' = NoMap
                   /\ NoFetch
                   /\ NoHistory
                   /\ CoreCallFrame
                   /\ UNCHANGED << reactionStore, paging, domEvents, app >>
              ELSE /\ timers' = MapDelete(timers, deletedSeen[photoId])
                   /\ deletedPhotos' = MapDelete(deletedPhotos, photoId)
                   /\ StartMedia("restorePhoto", photoId, << >>, "feed")
    /\ UNCHANGED << feedReactions, likeButton, feedList >>

\* The grace timer of a soft delete fires GRACE_MS after it was set: its
\* callback awaits permanentlyDeletePhoto.
TimerFires(t) ==
    /\ t \in DOMAIN timers
    /\ (now - timers[t].setAt) * 60 * 1000 >= GRACE_MS
    /\ timers' = MapDelete(timers, t)
    /\ StartMedia("permanentlyDeletePhoto", timers[t].photoId, << >>, "timer")
    /\ UNCHANGED << feedReactions, likeButton, deletedPhotos, undoToasts,
                    feedList >>

\* ------------------------------------------- reaction.store toggle resumes
\* toggleLike resumes after getDoc: the record exists (unlike) or not (like),
\* and the deleteDoc or setDoc is awaited; or the read failed and the catch
\* re-throws.
ToggleLikeCheck(c) ==
    /\ c \in DOMAIN calls
    /\ calls[c].op = "toggleLike" /\ calls[c].pc = "check"
    /\ \E ok \in BOOLEAN :
          IF ok
          THEN LET existing == isLiked(remoteReactions, userReactionsCache,
                                       calls[c].a, calls[c].b)
               IN  /\ calls' = [ calls EXCEPT ![c] =
                        [ @ EXCEPT !.pc = IF existing THEN "delete" ELSE "create",
                                   !.existed = DocExists(remoteReactions,
                                       reactionRef(calls[c].a, calls[c].b)) ] ]
                   /\ returned' = NoMap
                   /\ NoReadInvoked
                   /\ UNCHANGED requests
          ELSE Finish(c, Throw(calls[c]))
    /\ UNCHANGED << stores, friendEpoch, lastFriendOp, lastRead, dropped >>
    /\ AfterToggle(c)
    /\ UNCHANGED << reactionStore, paging, domEvents, app >>
    /\ CoreStepFrame

\* A seeded slip: the caches are updated and the event dispatched before the
\* write is known to have succeeded.
ToggleLikeWrite_optimistic(c) ==
    /\ c \in DOMAIN calls
    /\ calls[c].op = "toggleLike" /\ calls[c].pc \in { "delete", "create" }
    /\ LET photoId == calls[c].a
           userId == calls[c].b
           like == calls[c].pc = "create"
       IN  /\ userReactionsCache' = MapSet(userReactionsCache, userId,
                    IF like THEN LikedSet(userReactionsCache, userId) \cup { photoId }
                    ELSE LikedSet(userReactionsCache, userId) \ { photoId })
           /\ reactionCountCache' = MapSet(reactionCountCache, photoId,
                    IF like THEN likedCount(reactionCountCache, photoId)
                    ELSE unlikedCount(reactionCountCache, photoId))
           /\ reactionEvents' = Append(reactionEvents,
                    [ photoId |-> photoId,
                      action |-> IF like THEN "liked" ELSE "unliked" ])
           /\ likeBase' = BaseWithout(likeBase, { photoId })
           /\ \E ok \in BOOLEAN :
                 IF ok
                 THEN /\ remoteReactions' =
                           IF like
                           THEN SetDoc(remoteReactions, reactionRef(photoId, userId),
                                       Reaction(reactionRef(photoId, userId), userId))
                           ELSE DeleteDoc(remoteReactions, reactionRef(photoId, userId))
                      /\ Finish(c, Return(calls[c], like, FALSE, TRUE, FALSE, FALSE))
                 ELSE /\ UNCHANGED remoteReactions
                      /\ Finish(c, Throw(calls[c]))
    /\ UNCHANGED << stores, friendEpoch, lastFriendOp, lastRead, dropped,
                    loadResults, paging, feed, domEvents, app >>
    /\ CoreStepFrame

\* toggleLike resumes after deleteDoc / setDoc: the caches are updated, the
\* reactionChanged event is dispatched and the new state returned; or the
\* write failed and the catch re-throws.
ToggleLikeWrite(c) ==
    /\ c \in DOMAIN calls
    /\ calls[c].op = "toggleLike" /\ calls[c].pc \in { "delete", "create" }
    /\ LET photoId == calls[c].a
           userId == calls[c].b
           like == calls[c].pc = "create"
       IN  \E ok \in BOOLEAN :
             IF ok
             THEN /\ remoteReactions' =
                       IF like
                       THEN SetDoc(remoteReactions, reactionRef(photoId, userId),
                                   Reaction(reactionRef(photoId, userId), userId))
                       ELSE DeleteDoc(remoteReactions, reactionRef(photoId, userId))
                  /\ userReactionsCache' = MapSet(userReactionsCache, userId,
                       IF like
                       THEN LikedSet(userReactionsCache, userId) \cup { photoId }
                       ELSE LikedSet(userReactionsCache, userId) \ { photoId })
                  /\ reactionCountCache' = MapSet(reactionCountCache, photoId,
                       IF like THEN likedCount(reactionCountCache, photoId)
                       ELSE unlikedCount(reactionCountCache, photoId))
                  /\ reactionEvents' = Append(reactionEvents,
                       [ photoId |-> photoId,
                         action |-> IF like THEN "liked" ELSE "unliked" ])
                  /\ likeBase' =
                       IF like /\ calls[c].alone
                       THEN MapSet(BaseWithout(likeBase, { photoId }),
                                   << photoId, userId >>,
                                   likedCount(reactionCountCache, photoId) - 1)
                       ELSE BaseWithout(likeBase, { photoId })
                  /\ Finish(c, Return(calls[c], like, FALSE, TRUE, FALSE, FALSE))
             ELSE /\ UNCHANGED << remoteReactions, reactionCaches,
                                  reactionEvents, likeBase >>
                  /\ Finish(c, Throw(calls[c]))
    /\ AfterToggle(c)
    /\ UNCHANGED << stores, friendEpoch, lastFriendOp, lastRead, dropped,
                    loadResults, paging, domEvents, app >>
    /\ CoreStepFrame

\* ------------------------------------------------------------- the clock
Advance(d) ==
    /\ ticks < MaxTicks
    /\ ticks' = ticks + 1
    /\ now' = now + d
    /\ returned' = NoMap
    /\ NoReadInvoked
    /\ UNCHANGED << ops, budget, stores, requests, calls, friendEpoch,
                    lastFriendOp, lastRead, dropped, vIn, vOut, extras >>

\* ------------------------------------------------------ validateUsername
SmallAlphabet == { "a", "Z", "_", "7", " ", "-" }
Run(c, n) == [ i \in 1..n |-> c ]
Capitalised(s) ==
    [ i \in DOMAIN s |->
        IF i = 1 /\ \E j \in DOMAIN LowerChars : LowerChars[j] = s[i]
        THEN UpperChars[CHOOSE j \in DOMAIN LowerChars : LowerChars[j] = s[i]]
        ELSE s[i] ]

\* The strings given to validateUsername: every string over SmallAlphabet up
\* to MaxValLen, the reserved words as typed in several ways, and strings
\* around the upper length limit.
ValidateInputs ==
    UNION { [ 1..k -> SmallAlphabet ] : k \in 0..MaxValLen }
    \cup reserved
    \cup { Capitalised(w) : w \in reserved }
    \cup { << " " >> \o w \o << "\t" >> : w \in reserved }
    \cup { w \o << "x" >> : w \in reserved }
    \cup { Run("a", n) : n \in (MaxUsernameLen - 1)..(MaxUsernameLen + 2) }
    \cup { << " " >> \o Run("B", MaxUsernameLen) \o << " " >>,
           Run("a", MaxUsernameLen - 1) \o << "-" >>,
           << "a", " ", "b", "c" >>, << "j", "o", "e", "_", "9" >> }

InitValidate ==
    /\ InitStores(0, { bob })
    /\ InitExtras
    /\ vIn \in ValidateInputs
    /\ vOut = Null

\* validateUsername(vIn) is called.
ValidateUsername ==
    /\ IsNull(vOut)
    /\ vOut' = << validateUsername(vIn) >>
    /\ UNCHANGED << now, ticks, ops, budget, stores, requests, calls, returned,
                    friendEpoch, lastFriendOp, lastRead, dropped, lastCall, vIn,
                    extras >>

\* ------------------------------------------------------ specifications
\* The caches of the three stores under reads, invalidating writes and the
\* clock.
Next ==
    \/ GetUserByUsername(amy)
    \/ GetAllUsers
    \/ AddFriend(bob, amy)
    \/ GetAllPhotos
    \/ \E photo \in NewPhotos : SavePhoto(photo)
    \/ GetComments(FirstPhoto.id)
    \/ \E rnd \in Randoms : AddComment(FirstPhoto.id, amy, << "h","i" >>, rnd)
    \/ \E f \in DOMAIN fetches : ServerRead(f)
    \/ \E f \in DOMAIN fetches : FetchResolve(f)
    \/ \E f \in DOMAIN fetches : PhotosResolve(f)
    \/ \E f \in DOMAIN fetches : CommentsResolve(f)
    \/ \E f \in DOMAIN fetches : FetchReject(f)
    \/ \E c \in DOMAIN calls : AddFriendCommit(c)
    \/ \E c \in DOMAIN calls : SavePhotoWrite(c)
    \/ \E c \in DOMAIN calls : AddCommentWrite(c)
    \/ \E d \in Delays : Advance(d)

Spec == Init /\ [][Next]_vars

\* user.store under all of its calls.
NextUser ==
    \/ \E u \in Range(Usernames) : GetUserByUsername(u)
    \/ GetAllUsers
    \/ \E r \in RegisterInputs : RegisterUser(r.username, r.password, r.googleId)
    \/ \E a, b \in Range(Usernames) : AddFriend(a, b)
    \/ \E a, b \in Range(Usernames) : RemoveFriend(a, b)
    \/ ClearUserCache
    \/ \E f \in DOMAIN fetches : ServerRead(f)
    \/ \E f \in DOMAIN fetches : FetchResolve(f)
    \/ \E f \in DOMAIN fetches : FetchReject(f)
    \/ \E c \in DOMAIN calls : RegisterWrite(c)
    \/ \E c \in DOMAIN calls : AddFriendCommit(c)
    \/ \E c \in DOMAIN calls : RemoveFriendCommit(c)

SpecUser == Init /\ [][NextUser]_vars

\* The friend lists as read through the store while they are written:
\* scenarios of three calls.
InitRace ==
    /\ \E accounts \in InitialAccounts : InitStores(MaxRaceOps, accounts)
    /\ InitExtras
    /\ vIn = << >>
    /\ vOut = << >>

NextRace ==
    \/ \E u \in Range(Usernames) : GetUserByUsername(u)
    \/ \E u \in Range(Usernames) : GetFriends(u)
    \/ AddFriend(amy, bob)
    \/ RemoveFriend(amy, bob)
    \/ \E f \in DOMAIN fetches : ServerRead(f)
    \/ \E f \in DOMAIN fetches : FetchResolve(f)
    \/ \E f \in DOMAIN fetches : FetchReject(f)
    \/ \E c \in DOMAIN calls : AddFriendCommit(c)
    \/ \E c \in DOMAIN calls : RemoveFriendCommit(c)

SpecRace == InitRace /\ [][NextRace]_vars

\* The read paths of the four stores, with reads that fail.
InitRead ==
    /\ \E accounts \in InitialAccounts : InitStores(MaxOps, accounts)
    /\ \E likes \in { {}, { Reaction(reactionRef(FirstPhoto.id, amy), amy) } } :
          InitReactions(likes)
    /\ vIn = << >>
    /\ vOut = << >>

NextRead ==
    \/ GetUserByUsername(amy)
    \/ \E g \in GoogleIds : GetUserByGoogleId(g)
    \/ GetAllUsers
    \/ GetAllPhotos
    \/ \E reset \in BOOLEAN : GetPhotosPaginated(reset)
    \/ GetComments(FirstPhoto.id)
    \/ GetReactionCount(FirstPhoto.id)
    \/ HasUserLiked(FirstPhoto.id, amy)
    \/ \E f \in DOMAIN fetches : ServerRead(f)
    \/ \E f \in DOMAIN fetches : FetchResolve(f)
    \/ \E f \in DOMAIN fetches : PhotosResolve(f)
    \/ \E f \in DOMAIN fetches : CommentsResolve(f)
    \/ \E f \in DOMAIN fetches : PageResolve(f)
    \/ \E f \in DOMAIN fetches : ReactionReadResolve(f)
    \/ \E f \in DOMAIN fetches : FetchReject(f)

SpecRead == InitRead /\ [][NextRead]_vars

\* The photos as read through photo.store while media.store uploads and
\* deletes them: scenarios of three calls.
Befriended ==
    [ u \in { amy, bob } |->
        [ InitialUser(u) EXCEPT !.friends = IF u = amy THEN << bob >>
                                            ELSE << amy >> ] ]

\* The files picked for upload: a JPEG of the largest size allowed, a PDF.
UploadFiles ==
    { [ type |-> "image/jpeg", size |-> MAX_SIZE ],
      [ type |-> "application/pdf", size |-> 1 ] }

\* Queries typed into the search box.
SearchQueries == { << "@","B","o" >>, << " " >> }

InitPhoto ==
    /\ \E users \in { Befriended, [ u \in { amy, bob } |-> InitialUser(u) ] } :
          InitStoresFrom(MaxRaceOps, users)
    /\ InitExtras
    /\ vIn = << >>
    /\ vOut = << >>

NextPhoto ==
    \/ GetAllPhotos
    \/ \E u \in { bob, cal } : GetVisiblePhotos(u)
    \/ \E q \in SearchQueries : SearchPhotos(q)
    \/ \E file \in UploadFiles : UploadImage(file, PhotoIds[2], amy, << bob >>)
    \/ UpdatePhotoTags(FirstPhoto.id, << >>)
    \/ SoftDeletePhoto(FirstPhoto.id)
    \/ RestorePhoto(FirstPhoto.id)
    \/ PermanentlyDeletePhoto(FirstPhoto.id)
    \/ \E f \in DOMAIN fetches : ServerRead(f)
    \/ \E f \in DOMAIN fetches : PhotosResolve(f)
    \/ \E f \in DOMAIN fetches : FetchReject(f)
    \/ \E c \in DOMAIN calls : UploadProgressed(c)
    \/ \E c \in DOMAIN calls : UploadSettle(c)
    \/ \E c \in DOMAIN calls : UploadImageWrite(c)
    \/ \E c \in DOMAIN calls : UpdatePhotoTagsWrite(c)
    \/ \E c \in DOMAIN calls : SoftDeletePhotoWrite(c)
    \/ \E c \in DOMAIN calls : RestorePhotoWrite(c)
    \/ \E c \in DOMAIN calls : PermanentlyDeletePhotoWrite(c)

SpecPhoto == InitPhoto /\ [][NextPhoto]_vars

\* The photo and comment caches of photo.store while photos are saved and
\* comments added and deleted: scenarios of three calls.
CommentInputs == { << "h", "i" >>, << " ", "<", "b", ">", " " >> }

InitWrite ==
    /\ InitStores(MaxRaceOps, { amy, bob })
    /\ InitExtras
    /\ vIn = << >>
    /\ vOut = << >>

NextWrite ==
    \/ GetAllPhotos
    \/ \E photo \in NewPhotos : SavePhoto(photo)
    \/ \E p \in Range(PhotoIds) : GetComments(p)
    \/ \E text \in CommentInputs, rnd \in Randoms :
          AddComment(FirstPhoto.id, amy, text, rnd)
    \/ \E rnd \in Randoms : DeleteComment(FirstPhoto.id, << StartTime, rnd >>)
    \/ \E f \in DOMAIN fetches : ServerRead(f)
    \/ \E f \in DOMAIN fetches : PhotosResolve(f)
    \/ \E f \in DOMAIN fetches : CommentsResolve(f)
    \/ \E f \in DOMAIN fetches : FetchReject(f)
    \/ \E c \in DOMAIN calls : SavePhotoWrite(c)
    \/ \E c \in DOMAIN calls : AddCommentWrite(c)
    \/ \E c \in DOMAIN calls : DeleteCommentWrite(c)

SpecWrite == InitWrite /\ [][NextWrite]_vars

\* The feed of bob, who uploaded the first photo: he deletes it, clicks Undo
\* on the toast, and the grace timer fires.
InitUndo ==
    /\ InitStores(MaxRaceOps, { amy, bob })
    /\ InitExtras
    /\ vIn = << >>
    /\ vOut = << >>

NextUndo ==
    \/ HandleDelete(bob, FirstPhoto)
    \/ \E t \in DOMAIN undoToasts : Undo(t)
    \/ \E t \in DOMAIN timers : TimerFires(t)
    \/ Advance(1)
    \/ \E c \in DOMAIN calls : SoftDeletePhotoWrite(c)
    \/ \E c \in DOMAIN calls : RestorePhotoWrite(c)
    \/ \E c \in DOMAIN calls : PermanentlyDeletePhotoWrite(c)

SpecUndo == InitUndo /\ [][NextUndo]_vars

\* The reaction store on its own: likes of two photos by amy, with bob's
\* like of the first photo and amy's of the second possibly stored before.
InitialLikes ==
    SUBSET { Reaction(reactionRef(PhotoIds[1], bob), bob),
             Reaction(reactionRef(PhotoIds[2], amy), amy) }

InitLike ==
    /\ InitStores(MaxOps, { amy, bob })
    /\ \E likes \in InitialLikes : InitReactions(likes)
    /\ vIn = << >>
    /\ vOut = << >>

NextLike ==
    \/ \E p \in Range(PhotoIds) : ToggleLike(p, amy)
    \/ GetReactionCount(PhotoIds[1])
    \/ \E p \in Range(PhotoIds) : HasUserLiked(p, amy)
    \/ \E ids \in { << PhotoIds[1] >>, PhotoIds } : LoadReactionsForPhotos(ids, amy)
    \/ ClearReactionCache
    \/ \E f \in DOMAIN fetches : ServerRead(f)
    \/ \E f \in DOMAIN fetches : ReactionReadResolve(f)
    \/ \E f \in DOMAIN fetches : LoadResolve(f)
    \/ \E f \in DOMAIN fetches : LoadReject(f)
    \/ \E f \in DOMAIN fetches : FetchReject(f)
    \/ \E c \in DOMAIN calls : ToggleLikeCheck(c)
    \/ \E c \in DOMAIN calls : ToggleLikeWrite(c)

SpecLike == InitLike /\ [][NextLike]_vars

\* The feed showing the first photo to amy, its reactions state as loaded
\* from the remote store, while she clicks its like button and double-taps
\* the photo.
InitFeed ==
    /\ InitStores(MaxOps, { amy, bob })
    /\ \E likes \in SUBSET { Reaction(reactionRef(FirstPhoto.id, bob), bob),
                               Reaction(reactionRef(FirstPhoto.id, amy), amy) } :
          InitReactionsFeed(likes,
              MapSet(NoMap, FirstPhoto.id,
                     [ count |-> Cardinality(likes),
                       isLiked |-> SomeDocOf(likes, amy) ]))
    /\ vIn = << >>
    /\ vOut = << >>

NextFeed ==
    \/ Click
    \/ DoubleTap
    \/ Advance(1)
    \/ \E c \in DOMAIN calls : ToggleLikeCheck(c)
    \/ \E c \in DOMAIN calls : ToggleLikeWrite(c)

SpecFeed == InitFeed /\ [][NextFeed]_vars

\* Registrations of one free username, racing; no read fails.
RacingRegistrations ==
    { [ username |-> amy, password |-> "p1", googleId |-> "" ],
      [ username |-> << " ","A","m","y" >>, password |-> "p2", googleId |-> "" ] }

InitRegister ==
    /\ InitStores(MaxRaceOps, { bob })
    /\ InitExtras
    /\ vIn = << >>
    /\ vOut = << >>

NextRegister ==
    \/ \E r \in RacingRegistrations :
          RegisterUser(r.username, r.password, r.googleId)
    \/ \E f \in DOMAIN fetches : ServerRead(f)
    \/ \E f \in DOMAIN fetches : FetchResolve(f)
    \/ \E c \in DOMAIN calls : RegisterWrite(c)

SpecRegister == InitRegister /\ [][NextRegister]_vars

\* Registrations, one with a password and one through Google, and the
\* logins that follow them; no read fails.
Registrations ==
    { [ username |-> amy, password |-> "p1", googleId |-> "" ],
      [ username |-> bob, password |-> "", googleId |-> "g1" ] }

Credentials ==
    { [ username |-> amy, password |-> "p1" ],
      [ username |-> amy, password |-> "p2" ],
      [ username |-> bob, password |-> "p1" ] }

InitAuth ==
    /\ InitStores(MaxRaceOps, {})
    /\ InitExtras
    /\ vIn = << >>
    /\ vOut = << >>

NextAuth ==
    \/ \E r \in Registrations :
          RegisterUser(r.username, r.password, r.googleId)
    \/ \E k \in Credentials : Login(k.username, k.password)
    \/ Advance(CACHE_TTL)
    \/ \E f \in DOMAIN fetches : ServerRead(f)
    \/ \E f \in DOMAIN fetches : FetchResolve(f)
    \/ \E c \in DOMAIN calls : RegisterWrite(c)

SpecAuth == InitAuth /\ [][NextAuth]_vars

\* The Comments component of the first photo, mounted for amy, under her
\* submits and the snapshots of its listener; no read or write is lost.
SubmitRandoms == { "r1", "r2" }

InitComments ==
    /\ InitStores(MaxRaceOps, { amy, bob })
    /\ InitExtras
    /\ vIn = << >>
    /\ vOut = << >>

NextComments ==
    \/ MountComments(amy)
    \/ \E text \in CommentInputs, rnd \in SubmitRandoms : HandleSubmit(text, rnd)
    \/ SnapshotArrives
    \/ Advance(1)
    \/ \E f \in DOMAIN fetches : ServerRead(f)
    \/ \E f \in DOMAIN fetches : CommentsResolve(f)
    \/ \E c \in DOMAIN calls : AddCommentWrite(c)

SpecComments == InitComments /\ [][NextComments]_vars

\* The mounted feed's list under reads of the photo store, refreshes and a
\* soft delete made through the media store.
InitFeedList ==
    /\ InitStores(MaxRaceOps, { amy, bob })
    /\ InitExtras
    /\ vIn = << >>
    /\ vOut = << >>

NextFeedList ==
    \/ MountFeed(bob)
    \/ RefreshFeed
    \/ GetAllPhotos
    \/ SoftDeletePhoto(FirstPhoto.id)
    \/ \E f \in DOMAIN fetches : ServerRead(f)
    \/ \E f \in DOMAIN fetches : PhotosResolve(f)
    \/ \E f \in DOMAIN fetches : FetchReject(f)
    \/ \E c \in DOMAIN calls : SoftDeletePhotoWrite(c)

SpecFeedList == InitFeedList /\ [][NextFeedList]_vars

\* The like button on its own, rendered enabled or disabled, its clicks and
\* the toggles they start.
InitButton ==
    /\ InitStores(MaxRaceOps, { amy, bob })
    /\ \E disabled \in BOOLEAN :
       \E likes \in { {}, { Reaction(reactionRef(FirstPhoto.id, amy), amy) } } :
          InitFeedWith(likes,
              MapSet(NoMap, FirstPhoto.id,
                     [ count |-> Cardinality(likes),
                       isLiked |-> SomeDocOf(likes, amy) ]),
              disabled)
    /\ vIn = << >>
    /\ vOut = << >>

NextButton ==
    \/ Click
    \/ DoubleTap
    \/ Advance(1)
    \/ \E c \in DOMAIN calls : ToggleLikeCheck(c)
    \/ \E c \in DOMAIN calls : ToggleLikeWrite(c)

SpecButton == InitButton /\ [][NextButton]_vars

\* validateUsername on its own.
NextValidate == ValidateUsername

SpecValidate == InitValidate /\ [][NextValidate]_vars

\* getPhotosPaginated on its own, over collections of several pages.
PagedPhoto(i) == Photo(PagedIds[i], bob, << >>, (i + 1) \div 2)

\* A collection of n photos, two by two uploaded in the same minute.
PagedCollection(n) ==
    [ p \in { PagedIds[i] : i \in 1..n } |->
        PagedPhoto(CHOOSE i \in 1..n : PagedIds[i] = p) ]

\* Collections that end before, at and after a page boundary.
CollectionSizes ==
    { 0, 1, PAGE_SIZE, PAGE_SIZE + 1, MaxPages * PAGE_SIZE,
      MaxPages * PAGE_SIZE + 1 }

\* The calls it takes to page through the largest collection and start over.
MaxPagedCalls == MaxPages + 3

InitPage ==
    /\ \E n \in CollectionSizes :
          InitStoresWith(MaxPagedCalls, [ u \in { bob } |-> InitialUser(u) ],
                         PagedCollection(n))
    /\ InitExtras
    /\ vIn = << >>
    /\ vOut = << >>

\* Infinite scroll: each page is awaited before the next is asked for.
NextPage ==
    \/ /\ calls = NoMap
       /\ \E reset \in BOOLEAN : GetPhotosPaginated(reset)
    \/ \E f \in DOMAIN fetches : ServerRead(f)
    \/ \E f \in DOMAIN fetches : PageResolve(f)
    \/ \E f \in DOMAIN fetches : FetchReject(f)

SpecPage == InitPage /\ [][NextPage]_vars

\* getPhotosPaginated called without waiting for the call before it, over
\* a collection of one full page and one photo more.
MaxRacingCalls == MaxPages + 3
MaxInFlight == 2

InitPageRace ==
    /\ InitStoresWith(MaxRacingCalls, [ u \in { bob } |-> InitialUser(u) ],
                      PagedCollection(PAGE_SIZE + 1))
    /\ InitExtras
    /\ vIn = << >>
    /\ vOut = << >>

NextPageRace ==
    \/ /\ Cardinality(DOMAIN calls) < MaxInFlight
       /\ \E reset \in BOOLEAN : GetPhotosPaginated(reset)
    \/ \E f \in DOMAIN fetches : ServerRead(f)
    \/ \E f \in DOMAIN fetches : PageResolve(f)

SpecPageRace == InitPageRace /\ [][NextPageRace]_vars

\* searchPhotos on its own: every list up to MaxListLen of three photos and
\* the list of all three, under queries typed in several ways.
Alice == << "A","l","i","c","e" >>

SearchedPhotos ==
    << Photo("p1", Alice, << bob >>, 1),
       Photo("p2", bob, << cal, Alice >>, 2),
       Photo("p3", cal, << >>, 3) >>

TypedQueries ==
    { << "@","A","l","i","c","e" >>, << "a","l","i","c","e" >>,
      << >>, << " ", " " >>, << "@" >>, << "L","I","C" >>,
      << " ","@","B","o","b"," " >>, << "@"," ","b" >>, << "@","@","c" >>,
      << "b","o","b","b" >>, << "a" >> }

SearchInputs ==
    { [ photos |-> l, query |-> q ] :
        l \in UNION { [ 1..k -> Range(SearchedPhotos) ] : k \in 0..MaxListLen }
                \cup { SearchedPhotos },
        q \in TypedQueries }

InitSearch ==
    /\ InitStores(0, { bob })
    /\ InitExtras
    /\ vIn \in SearchInputs
    /\ vOut = Null

\* searchPhotos(vIn.photos, vIn.query) is called.
SearchPhotosOf ==
    /\ IsNull(vOut)
    /\ vOut' = << searchPhotos(vIn.photos, vIn.query) >>
    /\ UNCHANGED << now, ticks, ops, budget, stores, requests, calls, returned,
                    friendEpoch, lastFriendOp, lastRead, dropped, lastCall, vIn,
                    extras >>

NextSearch == SearchPhotosOf

SpecSearch == InitSearch /\ [][NextSearch]_vars

\* validateImage on its own: files of the allowed and of other types, empty
\* and of sizes around MAX_SIZE.
FileTypes ==
    ALLOWED_TYPES \cup { "application/pdf", "image/svg+xml", "IMAGE/JPEG", "" }

ImageFiles ==
    { [ type |-> t, size |-> n ] :
        t \in FileTypes,
        n \in { 0 } \cup ((MAX_SIZE - SizeSlack)..(MAX_SIZE + SizeSlack)) }

InitImage ==
    /\ InitStores(0, { bob })
    /\ InitExtras
    /\ vIn \in ImageFiles
    /\ vOut = Null

\* validateImage(vIn) is called.
ValidateImage ==
    /\ IsNull(vOut)
    /\ vOut' = << validateImage(vIn) >>
    /\ UNCHANGED << now, ticks, ops, budget, stores, requests, calls, returned,
                    friendEpoch, lastFriendOp, lastRead, dropped, lastCall, vIn,
                    extras >>

NextImage == ValidateImage

SpecImage == InitImage /\ [][NextImage]_vars

\* sanitizeCommentText on its own: every text over a small alphabet up to
\* MaxTextLen, the script example, and long texts around MAX_COMMENT_LENGTH.
TextAlphabet == { "a", "<", ">", " ", "\f" }

ScriptExample ==
    << "<","s","c","r","i","p","t",">","a","l","e","r","t","(","1",")",
       "<","/","s","c","r","i","p","t",">","H","i" >>

SanitizeInputs ==
    UNION { [ 1..k -> TextAlphabet ] : k \in 0..MaxTextLen }
    \cup { ScriptExample,
           Run("a", MAX_COMMENT_LENGTH + 100),
           Run(" ", MAX_COMMENT_LENGTH + 100),
           Run("a", MAX_COMMENT_LENGTH - 1) \o << "<", "b", ">" >>
               \o Run("a", 100 - 2),
           Run("a", MAX_COMMENT_LENGTH) \o << " " >> \o Run("a", 100 - 1),
           << "a", "\f" >> \o Run("a", MAX_COMMENT_LENGTH + 100 - 2) }

InitSanitize ==
    /\ InitStores(0, { bob })
    /\ InitExtras
    /\ vIn \in SanitizeInputs
    /\ vOut = Null

\* sanitizeCommentText(vIn) is called.
SanitizeCommentText ==
    /\ IsNull(vOut)
    /\ vOut' = << sanitizeCommentText(vIn) >>
    /\ UNCHANGED << now, ticks, ops, budget, stores, requests, calls, returned,
                    friendEpoch, lastFriendOp, lastRead, dropped, lastCall, vIn,
                    extras >>

NextSanitize == SanitizeCommentText

SpecSanitize == InitSanitize /\ [][NextSanitize]_vars

\* ================================================================ claims

\* ------------------------------------------------------------------- C10
\* ^[a-z0-9_]{3,20}$
UsernamePattern(s) ==
    /\ Len(s) >= 3
    /\ Len(s) <= 20
    /\ \A i \in 1..Len(s) :
          s[i] \in { "a","b","c","d","e","f","g","h","i","j","k","l","m",
                     "n","o","p","q","r","s","t","u","v","w","x","y","z",
                     "0","1","2","3","4","5","6","7","8","9","_" }

ReservedNames ==
    { << "a","d","m","i","n" >>, << "r","o","o","t" >>,
      << "s","y","s","t","e","m" >>,
      << "m","o","d","e","r","a","t","o","r" >>, << "m","o","d" >>,
      << "n","u","l","l" >>, << "u","n","d","e","f","i","n","e","d" >> }

\* C10: validateUsername(raw) returns {valid: true} exactly when raw, trimmed
\* and lower-cased, matches ^[a-z0-9_]{3,20}$ and is not one of admin, root,
\* system, moderator, mod, null, undefined; for every other input it returns
\* {valid: false} with a non-empty error.
C10_ValidateUsername ==
    ~IsNull(vOut) =>
        LET name == toLowerCase(trim(vIn))
        IN  IF UsernamePattern(name) /\ name \notin ReservedNames
            THEN vOut[1].valid
            ELSE ~vOut[1].valid /\ vOut[1].error # ""

\* A name of the greatest length, typed in capitals with spaces around it,
\* was accepted.
C10_Witness ==
    /\ ~IsNull(vOut)
    /\ vOut[1].valid
    /\ Len(vIn) > MaxUsernameLen
    /\ Len(trim(vIn)) = MaxUsernameLen

\* -------------------------------------------------------------------- C1
\* The pendingRequests key a suspended cached read awaits.
AwaitedKeyOf(call) ==
    IF call.op = "getAllPhotos" THEN AllPhotosKey ELSE UserKey(call.a)

\* C1: request deduplication of getUserByUsername(x) and getAllPhotos():
\* with no valid cache entry, the calls for one key issued before the first
\* settles are served by exactly one remote fetch, which every one of them
\* awaits, and the callers it resumes all receive the same result.
C1_Deduplication ==
    /\ \A f, g \in DOMAIN fetches :
          /\ fetches[f].key[1] \in { "user", "allPhotos" }
          /\ fetches[f].key = fetches[g].key
          => f = g
    /\ \A c \in DOMAIN calls :
          /\ calls[c].op \in { "getUser", "getAllPhotos" }
          /\ calls[c].pc = "await"
          => /\ calls[c].fid \in DOMAIN fetches
             /\ fetches[calls[c].fid].key = AwaitedKeyOf(calls[c])
    /\ \A c, d \in DOMAIN returned :
          /\ returned[c].op \in { "getUser", "getAllPhotos" }
          /\ returned[d].op = returned[c].op
          /\ returned[d].a = returned[c].a
          => /\ returned[d].fid = returned[c].fid
             /\ returned[d].result = returned[c].result

\* Two getUserByUsername calls for one user were resumed by the same fetch.
C1_Witness ==
    \E c, d \in DOMAIN returned :
        /\ c # d
        /\ returned[c].op = "getUser" /\ returned[d].op = "getUser"
        /\ returned[c].a = returned[d].a
        /\ returned[c].fid = returned[d].fid
        /\ returned[c].fid # 0

\* -------------------------------------------------------------------- C2
\* C2 as amended: for getUserByUsername, getAllPhotos and getComments, once
\* a read has completed with data the store caches (a user record that was
\* found, the photo list, a comment list), a read of the same key is
\* answered without a remote fetch while less than the TTL (5 min users,
\* 2 min photos, 1 min comments) has passed since the entry was last
\* written and no invalidating write came in between; the first read made
\* once that window has elapsed issues exactly one more remote fetch.
C2_CachedReadTtl ==
    ~IsNull(lastCall) =>
        LET c == lastCall[1]
        IN  (~IsNull(c.prior) /\ c.prior[1].data) =>
                (c.fetched <=> c.at - c.prior[1].at >= TTLOf(c.key))

\* A read some time after the first one, inside the window, sent nothing.
C2_Witness ==
    /\ ~IsNull(lastCall)
    /\ ~IsNull(lastCall[1].prior)
    /\ lastCall[1].prior[1].data
    /\ lastCall[1].at > lastCall[1].prior[1].at
    /\ lastCall[1].cached
    /\ ~lastCall[1].fetched

\* C2 as stated: after any read has completed (here: without an error), a
\* second read of the same key within the TTL window with no invalidating
\* write in between issues no remote fetch, and the first read after the
\* window issues exactly one.
C2_AnyCompletedRead ==
    ~IsNull(lastCall) =>
        LET c == lastCall[1]
        IN  (~IsNull(c.prior) /\ ~c.prior[1].error) =>
                (c.fetched <=> c.at - c.prior[1].at >= TTLOf(c.key))

\* -------------------------------------------------------------------- C3
\* C3: friend symmetry as seen through the store: a getFriends(a) called
\* after addFriend(a,b) (either way round) returned true contains b, and one
\* called after removeFriend returned true does not, in every interleaving
\* with other reads of the same users.  (A getFriends whose read failed and
\* was answered with [] is left out.)
C3_FriendsThroughStore ==
    \A c \in DOMAIN returned :
        LET r == returned[c]
        IN  (r.op = "getFriends" /\ ~r.failed /\ r.epoch = friendEpoch) =>
                \A u \in Range(Usernames) :
                    Pair(r.a, u) \in DOMAIN lastFriendOp =>
                        IF lastFriendOp[Pair(r.a, u)] = "added"
                        THEN u \in Range(r.result)
                        ELSE u \notin Range(r.result)

\* -------------------------------------------------------------------- C4
\* C4: remote friendship is symmetric in every reachable state: a.friends
\* contains b if and only if b.friends contains a.
C4_RemoteSymmetry ==
    \A a, b \in DOMAIN remoteUsers :
        b \in Range(remoteUsers[a].friends)
            <=> a \in Range(remoteUsers[b].friends)

\* -------------------------------------------------------------------- C5
Count(list, x) == Cardinality({ i \in DOMAIN list : list[i] = x })

\* C5: addFriend is idempotent on the friend lists: whenever addFriend(a,b)
\* has returned true, for the first or a later time, a.friends contains b
\* exactly once and b.friends contains a exactly once, and no friend list
\* ever holds a name twice.
C5_AddFriendIdempotent ==
    /\ \A c \in DOMAIN returned :
          LET r == returned[c]
          IN  (r.op = "addFriend" /\ r.committed) =>
                  /\ Count(remoteUsers[r.a].friends, r.b) = 1
                  /\ Count(remoteUsers[r.b].friends, r.a) = 1
    /\ \A u \in DOMAIN remoteUsers :
          \A x \in Range(remoteUsers[u].friends) :
              Count(remoteUsers[u].friends, x) = 1

\* addFriend(a,b) returned true for two users who were friends already.
C5_Witness ==
    \E c \in DOMAIN returned :
        /\ returned[c].op = "addFriend"
        /\ returned[c].committed
        /\ returned[c].wasFriend

\* -------------------------------------------------------------------- C6
\* C6: addFriend(a,b) returns false and commits no batch write when a = b or
\* when no user record b exists.
C6_AddFriendRejects ==
    \A c \in DOMAIN returned :
        LET r == returned[c]
        IN  (r.op = "addFriend" /\ (r.a = r.b \/ r.b \notin DOMAIN remoteUsers))
                => (r.result = FALSE /\ ~r.committed)

\* addFriend(a,a) of an existing user a was answered from the remote record
\* and returned false.
C6_Witness ==
    \E c \in DOMAIN returned :
        /\ returned[c].op = "addFriend"
        /\ returned[c].a = returned[c].b
        /\ returned[c].a \in DOMAIN remoteUsers
        /\ returned[c].fid # 0
        /\ returned[c].result = FALSE

\* -------------------------------------------------------------------- C7
\* What the step in which addFriend or removeFriend returns does to the user
\* cache: on true both users' entries are gone and every other entry is as
\* it was; on false no entry is gone.
FriendWriteCacheEffect ==
    \A c \in DOMAIN returned' :
        LET r == returned'[c]
        IN  r.op \in { "addFriend", "removeFriend" } =>
                IF r.result = TRUE
                THEN userCache' = [ u \in (DOMAIN userCache) \ { r.a, r.b } |->
                                      userCache[u] ]
                ELSE DOMAIN userCache \subseteq DOMAIN userCache'

C8_NeverOverwrites ==
    \A c \in DOMAIN returned :
        LET r == returned[c]
        IN  r.op = "registerUser" =>
                /\ ~validateUsername(r.a).valid =>
                       /\ ~r.result.success
                       /\ r.result.message # ""
                       /\ ~r.committed
                /\ r.committed => ~r.overwrote

ReadOps ==
    { "getUser", "getUserByGoogleId", "getAllUsers", "getAllPhotos",
      "getPhotosPaginated", "getComments", "getReactionCount", "hasUserLiked" }

\* The user record a single-record read is asked for, if there is one.
RecordAskedFor(r) ==
    IF r.op = "getUser" THEN MapGet(remoteUsers, r.a)
    ELSE FirstByGoogleId(remoteUsers, r.gid)

\* C11: read paths never reject: getUserByUsername, getUserByGoogleId,
\* getAllUsers, getAllPhotos, getPhotosPaginated, getComments,
\* getReactionCount and hasUserLiked return null for a record that does not
\* exist and the safe default (null, empty sequence, 0 or false) on a remote
\* transport error, and a failed read stores nothing in the cache.
C11_ReadsNeverReject ==
    [][ \A c \in DOMAIN returned' :
          LET r == returned'[c]
          IN  r.op \in ReadOps =>
                /\ ~r.threw
                /\ (r.op \in { "getUser", "getUserByGoogleId" }
                       /\ IsNull(RecordAskedFor(r))) => IsNull(r.result)
                /\ r.failed =>
                      /\ CASE r.op = "getReactionCount" -> r.result = 0
                            [] r.op = "hasUserLiked" -> r.result = FALSE
                            [] OTHER -> r.result = << >>
                      /\ UNCHANGED << userCache, allUsersCacheRef, photosCache,
                                      commentsCache, reactionCaches >> ]_vars

\* A getReactionCount whose read failed returned 0 while a reaction exists.
C11_Witness ==
    \E c \in DOMAIN returned :
        /\ returned[c].op = "getReactionCount"
        /\ returned[c].failed
        /\ returned[c].result = 0
        /\ ReactionDocs(remoteReactions, returned[c].a) # {}

\* ------------------------------------------------------------------- C12
\* The photos of a list that a user uploaded or is tagged in, in list order.
VisibleTo(photos, username) ==
    SelectSeq(photos, LAMBDA p :
        p.uploader = username \/ \E i \in DOMAIN p.tags : p.tags[i] = username)

NewestFirst(photos) ==
    \A i, j \in DOMAIN photos : i < j => photos[i].timestamp >= photos[j].timestamp

\* C12: getVisiblePhotos(username) returns exactly the photos of
\* getAllPhotos() (the list that call caches and hands on, newest first, in
\* the same order) whose uploader equals username or whose tags contain
\* username, whatever their deleted flag; a user who neither uploaded nor is
\* tagged gets none of them.
C12_VisiblePhotos ==
    \A c \in DOMAIN returned :
        LET r == returned[c]
        IN  r.op = "getVisiblePhotos" =>
              /\ NewestFirst(r.result)
              /\ IF r.failed THEN r.result = << >>
                 ELSE /\ ~IsNull(photosCache)
                      /\ r.result = VisibleTo(photosCache[1].data, r.a)
              /\ r.a = cal => r.result = << >>

\* bob was handed two photos: the one he uploaded, soft-deleted by now, and
\* before it the newer one he is tagged in.
C12_Witness ==
    \E c \in DOMAIN returned :
        /\ returned[c].op = "getVisiblePhotos"
        /\ returned[c].a = bob
        /\ Len(returned[c].result) = 2
        /\ returned[c].result[2].deleted

\* ------------------------------------------------------------------- C13
\* C13: a photo whose deleted flag is true is excluded from every
\* visibility and search result: it never appears in the result of
\* getVisiblePhotos or searchPhotos, while its record remains in the remote
\* store until permanentlyDeletePhoto.
C13_DeletedExcluded ==
    \A c \in DOMAIN returned :
        LET r == returned[c]
        IN  /\ r.op \in { "getVisiblePhotos", "searchPhotos" } =>
                  \A i \in DOMAIN r.result : ~r.result[i].deleted
            /\ (r.op = "softDeletePhoto" /\ r.result = TRUE) =>
                  /\ r.a \in DOMAIN remotePhotos
                  /\ remotePhotos[r.a].deleted

\* ------------------------------------------------------------------- C14
\* C14: end-to-end visibility: once amy and bob are registered,
\* addFriend(amy, bob) has succeeded and an upload by amy tagging bob has
\* completed, a getVisiblePhotos(bob) called from then on includes that photo
\* and a getVisiblePhotos(cal) does not, whatever store reads were made
\* before the upload.  (A call whose read failed is left out.)
C14_UploadVisible ==
    \A c \in DOMAIN returned :
        LET r == returned[c]
            ids == { r.result[i].id : i \in DOMAIN r.result }
        IN  (/\ r.op = "getVisiblePhotos"
             /\ ~r.failed
             /\ { amy, bob } \subseteq DOMAIN remoteUsers
             /\ bob \in Range(remoteUsers[amy].friends)
             /\ amy \in Range(remoteUsers[bob].friends)) =>
                \A p \in r.uploads \cap DOMAIN remotePhotos :
                    (remotePhotos[p].uploader = amy
                        /\ bob \in Range(remotePhotos[p].tags)) =>
                            /\ r.a = bob => p \in ids
                            /\ r.a = cal => p \notin ids

\* ------------------------------------------------------------------- C15
\* The cached reaction count of a photo as toggleLike reads it.
CachedCount(cache, photoId) ==
    IF photoId \in DOMAIN cache THEN cache[photoId] ELSE 0

\* C15: toggleLike is a true toggle: starting from a pair (photo, user) that
\* is not liked, a toggleLike call (with no other toggle running) returns
\* true and raises the cached reaction count of the photo by 1, and a second
\* call on the same pair returns false and lowers the cached count back to
\* its value before the first call (a photo without a cached count counting
\* as 0, and nothing else having written that count in between).
C15_TrueToggle ==
    [][ \A c \in DOMAIN returned' :
          LET r == returned'[c]
          IN  (r.op = "toggleLike" /\ ~r.threw /\ r.alone) =>
                /\ r.result = ~DocExists(remoteReactions, reactionRef(r.a, r.b))
                /\ r.result =>
                      CachedCount(reactionCountCache', r.a)
                          = CachedCount(reactionCountCache, r.a) + 1
                /\ (~r.result /\ << r.a, r.b >> \in DOMAIN likeBase) =>
                      CachedCount(reactionCountCache', r.a)
                          = likeBase[<< r.a, r.b >>] ]_vars

\* amy liked a photo and then unliked it: two toggles, one after the other.
C15_Witness ==
    \E c \in DOMAIN returned :
        /\ returned[c].op = "toggleLike"
        /\ returned[c].alone
        /\ ~returned[c].threw
        /\ returned[c].result = FALSE
        /\ Len(reactionEvents) = 2
        /\ reactionEvents[1] = [ photoId |-> returned[c].a, action |-> "liked" ]
        /\ reactionEvents[2] = [ photoId |-> returned[c].a, action |-> "unliked" ]

\* ------------------------------------------------------------------- C16
\* C16: toggleLike decides like versus unlike from the remote existence of
\* the reaction record at its check and never from the local caches: it
\* creates a record only when none existed and deletes only when one
\* existed; and after any interleaving of toggleLike calls there is at most
\* one reaction record per (photo, user) pair.
C16_RemoteDecides ==
    [][ /\ \A c \in DOMAIN returned' :
              LET r == returned'[c]
              IN  (r.op = "toggleLike" /\ ~r.threw) =>
                    /\ r.result = ~r.existed
                    /\ r.alone =>
                          DocExists(remoteReactions', reactionRef(r.a, r.b))
                              = ~DocExists(remoteReactions, reactionRef(r.a, r.b))
        /\ \A d, e \in remoteReactions' :
              (d.photoId = e.photoId /\ d.userId = e.userId) => d = e ]_vars

\* Two overlapping toggles of one pair both found no record and both liked:
\* one record is stored.
C16_Witness ==
    /\ Len(reactionEvents) = 2
    /\ reactionEvents[1].action = "liked"
    /\ reactionEvents[2] = reactionEvents[1]
    /\ Cardinality({ d \in remoteReactions :
                        d.photoId = reactionEvents[1].photoId /\ d.userId = amy }) = 1

\* ------------------------------------------------------------------- C17
\* C17: toggleLike re-raises a remote transport error to its caller, and
\* when it throws (on the existence check, the delete or the create) the
\* reaction-count cache and the user-liked-set cache are unchanged and no
\* reactionChanged event is dispatched.
C17_ThrowChangesNothing ==
    [][ \A c \in DOMAIN returned' :
          LET r == returned'[c]
          IN  r.op = "toggleLike" =>
                /\ r.failed => r.threw
                /\ r.threw => UNCHANGED << reactionCaches, reactionEvents,
                                           remoteReactions >> ]_vars

\* The setDoc of a like failed while the caches held an earlier like.
C17_Witness ==
    \E c \in DOMAIN returned :
        /\ returned[c].op = "toggleLike"
        /\ returned[c].threw
        /\ returned[c].pc = "create"
        /\ Len(reactionEvents) = 1
        /\ reactionCountCache # NoMap

\* ------------------------------------------------------------------- C18
\* C18: when a like toggle started from the feed's like button fails with a
\* transport error, the button's optimistic liked state and count revert to
\* the values they had before the click.  (No other toggle ran meanwhile.)
C18_ButtonReverts ==
    (likeButton.failed /\ ~likeButton.isPending) =>
        /\ likeButton.optimisticLiked = likeButton.shownLiked
        /\ likeButton.optimisticCount = likeButton.shownCount

\* ------------------------------------------------------------------- C19
\* C19: hasUserLiked(photoId, userId) returns true exactly when the reaction
\* subcollection of that photo contains a record keyed by userId (and false
\* on a fetch error), for every photo, whatever reactions of other photos
\* were loaded or toggled before the call.  (No toggle runs during the call.)
C19_HasUserLiked ==
    \A c \in DOMAIN returned :
        LET r == returned[c]
        IN  (r.op = "hasUserLiked" /\ r.alone) =>
              r.result = IF r.failed THEN FALSE
                         ELSE DocExists(remoteReactions, reactionRef(r.a, r.b))

\* ------------------------------------------------------------------- C20
\* C20: loadReactionsForPhotos(photoIds, userId) never rejects and returns a
\* map with one entry for every requested photoId: a photo whose fetch fails
\* gets {count: 0, isLiked: false} without affecting the entries of the
\* other photos, each of which carries the fetched record count and whether
\* userId is among the records.
C20_LoadNeverRejects ==
    [][ /\ \A c \in DOMAIN returned' :
              LET r == returned'[c]
              IN  r.op = "loadReactionsForPhotos" =>
                    /\ ~r.threw
                    /\ ~r.failed
                    /\ DOMAIN r.result = Range(r.a)
        /\ \A f \in DOMAIN fetches :
              (fetches[f].key[1] = "loadReactions" /\ f \notin DOMAIN fetches') =>
                 LET photoId == fetches[f].key[2][1]
                     userId == fetches[f].key[2][2]
                     c == fetches[f].key[2][3]
                     after == IF c \in DOMAIN loadResults' THEN loadResults'[c]
                              ELSE returned'[c].result
                 IN  /\ photoId \in DOMAIN after
                     /\ IF after[photoId].failed
                        THEN after[photoId].count = 0 /\ ~after[photoId].isLiked
                        ELSE /\ fetches[f].read
                             /\ after[photoId].count = Cardinality(fetches[f].snap)
                             /\ after[photoId].isLiked =
                                   (\E d \in fetches[f].snap : d.userId = userId)
                     /\ \A q \in DOMAIN loadResults[c] :
                           q # photoId => after[q] = loadResults[c][q] ]_vars

\* The read of the first photo failed and that of the second, which amy
\* likes, arrived.
C20_Witness ==
    \E c \in DOMAIN returned :
        /\ returned[c].op = "loadReactionsForPhotos"
        /\ returned[c].a = PhotoIds
        /\ returned[c].result[PhotoIds[1]].failed
        /\ ~returned[c].result[PhotoIds[2]].failed
        /\ returned[c].result[PhotoIds[2]].isLiked
        /\ returned[c].result[PhotoIds[2]].count = 1

\* ------------------------------------------------------------------- C21
\* C21: an Undo clicked on the 'Photo deleted' toast before the grace timer
\* of that delete has fired cancels the pending permanent delete: the timer
\* is no longer armed and the photo's record stays in the remote store.
C21_UndoCancels ==
    \A t \in DOMAIN undoToasts :
        (undoToasts[t].clicked /\ undoToasts[t].inTime) =>
            /\ t \notin DOMAIN timers
            /\ undoToasts[t].photoId \in DOMAIN remotePhotos

\* ------------------------------------------------------------------- C22
\* C22: each of updatePhotoTags, softDeletePhoto, restorePhoto and
\* permanentlyDeletePhoto, in the step in which it returns, has dispatched
\* exactly one event identifying the photo if it returns true, and none if
\* it returns false.
MediaMutations ==
    { "updatePhotoTags", "softDeletePhoto", "restorePhoto",
      "permanentlyDeletePhoto" }

C22_MutationNotifies ==
    [][ \A c \in DOMAIN returned' :
          LET r == returned'[c]
          IN  r.op \in MediaMutations =>
                IF r.result
                THEN /\ r.committed
                     /\ Len(domEvents') = Len(domEvents) + 1
                     /\ domEvents'[Len(domEvents')].photoId = r.a
                ELSE /\ ~r.committed
                     /\ domEvents' = domEvents ]_vars

\* ------------------------------------------------------------------- C23
\* C23: uploadImage is two-phase.  A photo record is written only by an
\* upload whose binary upload has succeeded and is the record that upload
\* built; an upload whose validation, binary upload or metadata write fails
\* rejects having dispatched no photoUploaded event and stored no record of
\* its id, its last progress report being an error; an upload that resolves
\* has stored its record, then reported progress 100 (for the first time)
\* and dispatched one photoUploaded event; no upload still in flight has
\* reported progress 100, and photoUploaded is dispatched only by an upload
\* that resolves in the same step.
LastReport(r) == r.progress[Len(r.progress)]

C23_UploadTwoPhase ==
    [][ /\ \A id \in DOMAIN remotePhotos' \ DOMAIN remotePhotos :
              \E c \in DOMAIN calls :
                  /\ calls[c].op = "uploadImage" /\ calls[c].a = id
                  /\ calls[c].pc = "write"
                  /\ remotePhotos'[id] = calls[c].b
        /\ \A c \in DOMAIN returned' :
              LET r == returned'[c]
              IN  r.op = "uploadImage" =>
                    IF r.threw
                    THEN /\ domEvents' = domEvents
                         /\ r.a \notin DOMAIN remotePhotos'
                         /\ LastReport(r) = [ progress |-> 0, state |-> "error" ]
                    ELSE /\ r.pc = "write"
                         /\ r.a \notin DOMAIN remotePhotos
                         /\ remotePhotos'[r.a] = r.result[1]
                         /\ domEvents' =
                               Append(domEvents, Event("photoUploaded", r.a))
                         /\ LastReport(r) =
                               [ progress |-> 100, state |-> "success" ]
                         /\ \A k \in 1..(Len(r.progress) - 1) :
                               /\ r.progress[k].state = "uploading"
                               /\ r.progress[k].progress < 100
        /\ \A c \in DOMAIN calls' :
              calls'[c].op = "uploadImage" =>
                  \A k \in 1..Len(calls'[c].progress) :
                      /\ calls'[c].progress[k].state = "uploading"
                      /\ calls'[c].progress[k].progress < 100
        /\ (/\ Len(domEvents') > Len(domEvents)
            /\ domEvents'[Len(domEvents')].type = "photoUploaded") =>
               \E c \in DOMAIN returned' :
                   returned'[c].op = "uploadImage" /\ ~returned'[c].threw ]_vars

\* An upload whose bytes all arrived rejected because the metadata write
\* failed.
C23_Witness ==
    \E c \in DOMAIN returned :
        /\ returned[c].op = "uploadImage"
        /\ returned[c].threw
        /\ returned[c].pc = "write"
        /\ Len(returned[c].progress) = 3
        /\ PhotoIds[2] \notin DOMAIN remotePhotos

\* ------------------------------------------------------------------- C24
\* What the step in which savePhoto returns does: on true the photo is
\* stored, the photo cache is empty and exactly one photoUploaded event was
\* dispatched; on false nothing was written, the cache is as it was and no
\* event was dispatched.
SavePhotoEffect ==
    \A c \in DOMAIN returned' :
        LET r == returned'[c]
        IN  r.op = "savePhoto" =>
              IF r.result
              THEN /\ r.committed
                   /\ remotePhotos'[r.a] = r.b
                   /\ photosCache' = Null
                   /\ domEvents' = Append(domEvents, Event("photoUploaded", r.a))
              ELSE /\ ~r.committed
                   /\ UNCHANGED << remotePhotos, photosCache, domEvents >>

CommentWriteEffect ==
    \A c \in DOMAIN returned' :
        LET r == returned'[c]
            done == IF r.op = "addComment" THEN ~IsNull(r.result) ELSE r.result
        IN  r.op \in { "addComment", "deleteComment" } =>
              IF done
              THEN /\ r.committed
                   /\ commentsCache' =
                         [ p \in (DOMAIN commentsCache) \ { r.a } |->
                               commentsCache[p] ]
                   /\ domEvents' =
                         Append(domEvents,
                                Event(IF r.op = "addComment" THEN "commentAdded"
                                      ELSE "commentDeleted", r.a))
              ELSE /\ ~r.committed
                   /\ UNCHANGED << remoteComments, commentsCache, domEvents >>

C26_NoEmptyComment ==
    [][ /\ \A c \in DOMAIN returned' :
              LET r == returned'[c]
              IN  r.op = "addComment" =>
                    /\ sanitizeCommentText(r.input[1]) = << >> =>
                          /\ IsNull(r.result)
                          /\ ~r.committed
                          /\ c \notin DOMAIN calls
                          /\ UNCHANGED << remoteComments, commentsCache,
                                          photosCache, domEvents >>
                    /\ r.committed =>
                          /\ r.result[1].text = sanitizeCommentText(r.input[1])
                          /\ r.result[1].text # << >>
                          /\ r.result[1] \in Range(remoteComments'[r.a])
        /\ \A c \in DOMAIN calls' :
              calls'[c].op = "addComment" =>
                  /\ calls'[c].b.text = sanitizeCommentText(calls'[c].input[1])
                  /\ calls'[c].b.text # << >>
        /\ \A p \in DOMAIN remoteComments' :
              \A k \in DOMAIN remoteComments'[p] :
                  remoteComments'[p][k].text # << >> ]_vars

\* A comment of blanks around a tag was turned down, and one with text was
\* written before.
C26_Witness ==
    /\ \E c \in DOMAIN returned :
          /\ returned[c].op = "addComment"
          /\ returned[c].input = << << " ", "<", "b", ">", " " >> >>
          /\ IsNull(returned[c].result)
          /\ ~returned[c].failed
    /\ FirstPhoto.id \in DOMAIN remoteComments
    /\ Len(remoteComments[FirstPhoto.id]) = 1

\* ------------------------------------------------------------------- C27
\* A '<' followed later by a '>'.
TagShaped(s) == \E i, j \in DOMAIN s : i < j /\ s[i] = "<" /\ s[j] = ">"

\* The character at i lies in a tag of s: between a '<' and the first '>'
\* after it, both included.
InTag(s, i) ==
    \E j \in 1..i :
        /\ s[j] = "<"
        /\ \A m \in j..(i - 1) : s[m] # ">"
        /\ \E k \in i..Len(s) : k > j /\ s[k] = ">"

\* The first 500 characters of the trimmed text without its tags and
\* control characters.
TextBetweenTags(text) ==
    LET s == SubSeq(trim(text), 1,
                    IF Len(trim(text)) > 500 THEN 500 ELSE Len(trim(text)))
    IN  SelectSeq([ i \in DOMAIN s |->
                      IF InTag(s, i) \/ s[i] = "\f" THEN "" ELSE s[i] ],
                  LAMBDA c : c # "")

SanitizeContract ==
    ~IsNull(vOut) =>
        /\ Len(vOut[1]) <= 500
        /\ ~TagShaped(vOut[1])
        /\ vOut[1] = TextBetweenTags(vIn)
        /\ vIn = ScriptExample =>
              vOut[1] = << "a","l","e","r","t","(","1",")","H","i" >>

\* C27 as amended: for every input the sanitized text is at most 500
\* characters long and contains no tag-shaped substring, with the text
\* between tags kept; sanitize("<script>alert(1)</script>Hi") is
\* "alert(1)Hi"; and an input that after trimming has 500 characters or
\* more, the first 500 of them free of tags and control characters, is cut
\* to exactly those 500 characters.
C27_Sanitize ==
    /\ SanitizeContract
    /\ ~IsNull(vOut) =>
          LET t == trim(vIn)
          IN  (/\ Len(t) >= 500
               /\ ~TagShaped(SubSeq(t, 1, 500))
               /\ \A i \in 1..500 : t[i] # "\f") =>
                 vOut[1] = SubSeq(t, 1, 500)

\* A text of 600 letters was cut to 500.
C27_Witness ==
    /\ ~IsNull(vOut)
    /\ vIn = Run("a", 600)
    /\ vOut[1] = Run("a", 500)

\* C27 as stated: every 600-character tag-free input is cut to exactly 500
\* characters.
C27_SixHundred ==
    /\ SanitizeContract
    /\ (~IsNull(vOut) /\ Len(vIn) = 600 /\ ~TagShaped(vIn)) =>
          Len(vOut[1]) = 500

\* ------------------------------------------------------------------- C28
\* The query lower-cased, trimmed, and without one leading '@'.
ReferenceQuery(query) ==
    LET t == trim(toLowerCase(query))
    IN  IF t # << >> /\ Head(t) = "@" THEN Tail(t) ELSE t

\* name contains q as a substring, whatever the case of name.
ContainsIgnoringCase(name, q) ==
    \E a \in 1..(Len(name) + 1) :
        /\ a + Len(q) - 1 <= Len(name)
        /\ \A k \in 1..Len(q) : LowerChar(name[a + k - 1]) = q[k]

SearchMatches(photo, q) ==
    \/ ContainsIgnoringCase(photo.uploader, q)
    \/ \E t \in Range(photo.tags) : ContainsIgnoringCase(t, q)

\* C28: searchPhotos(photos, query) equals the reference: with the query
\* lower-cased, trimmed and stripped of one leading '@', the input unchanged
\* if that is empty, otherwise exactly the photos whose uploader or some tag
\* contains it ignoring case, in input order; searching "@Alice" and
\* "alice" gives the same.
C28_SearchReference ==
    ~IsNull(vOut) =>
        LET q == ReferenceQuery(vIn.query)
            photos == vIn.photos
            hits == { i \in DOMAIN photos : SearchMatches(photos[i], q) }
        IN  /\ IF q = << >> THEN vOut[1] = photos
               ELSE /\ Len(vOut[1]) = Cardinality(hits)
                    /\ \A i \in hits :
                          vOut[1][Cardinality({ j \in hits : j <= i })]
                              = photos[i]
            /\ searchPhotos(photos, << "@","A","l","i","c","e" >>)
                  = searchPhotos(photos, << "a","l","i","c","e" >>)

\* "@Alice" found the photo Alice uploaded and the one she is tagged in.
C28_Witness ==
    /\ ~IsNull(vOut)
    /\ vIn.query = << "@","A","l","i","c","e" >>
    /\ vIn.photos = SearchedPhotos
    /\ vOut[1] = << SearchedPhotos[1], SearchedPhotos[2] >>

\* ------------------------------------------------------------------- C29
\* C29: validateImage accepts a file exactly when its MIME type is one of
\* image/jpeg, image/png, image/gif, image/webp and its size is at most
\* 10,485,760 bytes; a wrong type is rejected with the 'Invalid file type'
\* error whatever the size, and an allowed type of 10,485,761 bytes or more
\* with the 'too large' error.
C29_ValidateImage ==
    ~IsNull(vOut) =>
        LET allowed == vIn.type \in { "image/jpeg", "image/png", "image/gif",
                                      "image/webp" }
        IN  /\ vOut[1].valid <=> (allowed /\ vIn.size <= 10485760)
            /\ ~allowed =>
                  vOut[1].error = "Invalid file type. Use JPEG, PNG, GIF, or WebP."
            /\ (allowed /\ vIn.size >= 10485761) =>
                  vOut[1].error = "File too large. Maximum size is 10MB."

\* A JPEG of exactly 10,485,760 bytes was accepted.
C29_Witness ==
    /\ ~IsNull(vOut)
    /\ vIn = [ type |-> "image/jpeg", size |-> 10485760 ]
    /\ vOut[1].valid

\* ------------------------------------------------------------------- C30
\* The kinds of key user.store reads through deduplicateRequest.
UserStoreKeys == { "user", "google", "allUsers" }

\* C30: in user.store and in photo.store a key is registered in
\* pendingRequests exactly while a remote fetch for that key is in flight:
\* every registered key names a fetch in flight for it, and every fetch in
\* flight that was started through deduplicateRequest is the one registered
\* under its key, so there is at most one per key.
C30_PendingRequests ==
    /\ \A key \in DOMAIN pendingRequests :
          /\ key[1] \in UserStoreKeys
          /\ pendingRequests[key] \in DOMAIN fetches
          /\ fetches[pendingRequests[key]].key = key
    /\ \A key \in DOMAIN photoPendingRequests :
          /\ key = AllPhotosKey
          /\ photoPendingRequests[key] \in DOMAIN fetches
          /\ fetches[photoPendingRequests[key]].key = key
    /\ \A f \in DOMAIN fetches :
          LET key == fetches[f].key
          IN  /\ key[1] \in UserStoreKeys =>
                    /\ key \in DOMAIN pendingRequests
                    /\ pendingRequests[key] = f
              /\ key = AllPhotosKey =>
                    /\ key \in DOMAIN photoPendingRequests
                    /\ photoPendingRequests[key] = f

\* After a fetch of amy's record failed, a later call started a new one,
\* which is registered.
C30_Witness ==
    /\ UserKey(amy) \in DOMAIN pendingRequests
    /\ pendingRequests[UserKey(amy)] > 1
    /\ UserKey(amy) \in DOMAIN lastRead
    /\ lastRead[UserKey(amy)].error

\* ------------------------------------------------------------------- C31
\* C31: the comment and the reaction store collapse concurrent identical
\* reads: the getComments(p) calls, and the getReactionCount(p) calls, issued
\* with no valid cache entry before the first of them settles are served by
\* one remote fetch, so no two fetches for one such key are in flight.
C31_ReadsCollapse ==
    \A f, g \in DOMAIN fetches :
        /\ fetches[f].key[1] \in { "comments", "reactionCount" }
        /\ fetches[f].key = fetches[g].key
        => f = g

\* ------------------------------------------------------------------- C32
\* The settled paginated calls of the sequence in progress: from the last
\* call with reset = true on, or from start-up, when the cursor is null too.
PageSequence ==
    LET resets == { i \in DOMAIN pageLog : pageLog[i].reset }
        start == IF resets = {} THEN 1
                 ELSE CHOOSE i \in resets : \A j \in resets : j <= i
    IN  start..Len(pageLog)

PageIdsOf(e) == { e.page[i].id : i \in DOMAIN e.page }

\* The ids the sequence has returned before its call k.
ReturnedBefore(k) ==
    UNION { PageIdsOf(pageLog[j]) : j \in { i \in PageSequence : i < k } }

\* C32: pagination with each call awaited before the next, over a collection
\* that does not change. Every page holds at most PAGE_SIZE photos of the
\* collection, newest first; the pages of a sequence are pairwise disjoint,
\* each holds the newest photos not returned before it, as many as there are
\* up to PAGE_SIZE, so that the sequence has enumerated the whole collection
\* once a page comes back short; an empty page and a failed fetch leave the
\* cursor where the call found it; a call with reset = true that succeeds
\* returns the newest page.
C32_SequentialPages ==
    \A k \in PageSequence :
        LET e == pageLog[k]
            ids == PageIdsOf(e)
            left == (DOMAIN remotePhotos) \ ReturnedBefore(k)
        IN  /\ Len(e.page) <= PAGE_SIZE
            /\ \A i \in DOMAIN e.page :
                  /\ e.page[i].id \in DOMAIN remotePhotos
                  /\ e.page[i] = remotePhotos[e.page[i].id]
            /\ \A i, j \in DOMAIN e.page :
                  i < j => /\ e.page[i].timestamp >= e.page[j].timestamp
                           /\ e.page[i].id # e.page[j].id
            /\ ids \cap ReturnedBefore(k) = {}
            /\ \A p \in ids : \A q \in left \ ids :
                  remotePhotos[p].timestamp >= remotePhotos[q].timestamp
            /\ ~e.failed =>
                  Len(e.page) = IF Cardinality(left) < PAGE_SIZE
                                THEN Cardinality(left) ELSE PAGE_SIZE
            /\ ~e.failed /\ Len(e.page) < PAGE_SIZE =>
                  ReturnedBefore(k) \cup ids = DOMAIN remotePhotos
            /\ Len(e.page) = 0 => e.after = e.before /\ e.after = e.cursor
            /\ e.failed => Len(e.page) = 0

\* A collection of more than MaxPages full pages was paged through to the
\* empty page, in a sequence started over by a call with reset = true.
C32_Witness ==
    /\ Cardinality(DOMAIN remotePhotos) > MaxPages * PAGE_SIZE
    /\ Len(pageLog) > 0
    /\ LET last == pageLog[Len(pageLog)]
       IN  /\ ~last.failed
           /\ Len(last.page) = 0
           /\ ReturnedBefore(Len(pageLog)) = DOMAIN remotePhotos
    /\ \E k \in PageSequence : pageLog[k].reset /\ k > 1

\* ------------------------------------------------------------------- C33
\* The paginated calls in flight.
PagingCalls == { c \in DOMAIN calls : calls[c].op = "getPhotosPaginated" }

\* C33: the pagination cursor is shared and unguarded. A call is issued
\* whatever calls are in flight and queries from the cursor as it is then
\* (null with reset = true), so a call without reset issued while one that
\* queried from the current cursor is in flight queries from that same
\* cursor, and calls that queried from one cursor return the same page. A
\* call that settles with a page that is not empty moves the cursor to that
\* page's last document, whatever was issued or has settled since the call
\* was made.
C33_UnguardedCursor ==
    [][ /\ \A d \in (DOMAIN calls') \ DOMAIN calls :
              calls'[d].op = "getPhotosPaginated" =>
                 LET cursor == IF calls'[d].a THEN Null ELSE lastDoc
                     asked == fetches'[calls'[d].fid].key
                 IN  /\ asked = PageKey(cursor)
                     /\ lastDoc' = cursor
                     /\ \A c \in PagingCalls :
                           /\ ~calls'[d].a
                           /\ fetches[calls[c].fid].key = PageKey(lastDoc)
                           => asked = fetches[calls[c].fid].key
        /\ Len(pageLog') > Len(pageLog) =>
              LET e == pageLog'[Len(pageLog')]
              IN  /\ lastDoc' = IF Len(e.page) = 0 THEN lastDoc
                                ELSE << e.page[Len(e.page)] >>
                  /\ \A i \in DOMAIN pageLog :
                        /\ pageLog[i].cursor = e.cursor
                        /\ ~pageLog[i].failed /\ ~e.failed
                        => pageLog[i].page = e.page
      ]_vars

\* Two calls without reset, made when no call with reset = true had been
\* made yet, returned the same page; and after a later call with reset =
\* true the calls made from it on came to the empty page without having
\* returned the whole collection, a call made before the reset having moved
\* the cursor after it.
C33_Witness ==
    /\ calls = NoMap
    /\ \E i, j \in DOMAIN pageLog :
          /\ i # j
          /\ ~pageLog[i].reset /\ ~pageLog[j].reset
          /\ Len(pageLog[i].page) > 0
          /\ pageLog[i].page = pageLog[j].page
          /\ \A k \in DOMAIN pageLog :
                pageLog[k].reset => /\ pageLog[k].fid > pageLog[i].fid
                                    /\ pageLog[k].fid > pageLog[j].fid
    /\ \E b \in DOMAIN pageLog :
          LET restarted == { k \in DOMAIN pageLog :
                                pageLog[k].fid >= pageLog[b].fid }
          IN  /\ pageLog[b].reset
              /\ \A k \in restarted : pageLog[k].reset => k = b
              /\ \E k \in restarted : k > b /\ Len(pageLog[k].page) = 0
              /\ \E k \in DOMAIN pageLog :
                    k > b /\ pageLog[k].fid < pageLog[b].fid
              /\ UNION { PageIdsOf(pageLog[k]) : k \in restarted }
                    # DOMAIN remotePhotos

\* ------------------------------------------------------------------- C34
\* The onToggle calls of the like button that have not settled.
OnToggleCalls == { c \in DOMAIN calls : calls[c].via = "button" }

\* Whether handleClick returns before its optimistic update.
ClickHeldBack ==
    \/ likeButton.disabled
    \/ likeButton.isPending
    \/ (now - likeButton.lastClick) * 60 * 1000 < RATE_LIMIT_MS

\* C34: a like button has at most one onToggle call in flight, and it is
\* pending exactly while that call is. A click on a disabled button, while
\* the previous onToggle is pending or less than RATE_LIMIT_MS after the
\* last accepted click starts no call and leaves the optimistic liked state
\* and count as they are; onToggle is invoked by no other click.
C34_OneToggleInFlight ==
    [][ /\ Cardinality(OnToggleCalls) <= 1
        /\ likeButton.isPending <=> OnToggleCalls # {}
        /\ likeButton'.ignored /\ ~likeButton.ignored =>
              /\ ClickHeldBack
              /\ calls' = calls
              /\ likeButton'.optimisticLiked = likeButton.optimisticLiked
              /\ likeButton'.optimisticCount = likeButton.optimisticCount
              /\ likeButton'.isPending = likeButton.isPending
              /\ likeButton'.lastClick = likeButton.lastClick
        /\ \A c \in (DOMAIN calls') \ DOMAIN calls :
              calls'[c].via = "button" =>
                 /\ ~ClickHeldBack
                 /\ OnToggleCalls = {}
      ]_vars

\* A click on the enabled button, made later than RATE_LIMIT_MS after the
\* click that was accepted and while that click's onToggle was pending, has
\* just been ignored.
C34_Witness ==
    /\ likeButton.ignored
    /\ ~likeButton.disabled
    /\ likeButton.isPending
    /\ OnToggleCalls # {}
    /\ ~((now - likeButton.lastClick) * 60 * 1000 < RATE_LIMIT_MS)

\* ------------------------------------------------------------------- C35
\* C35: registration is exclusive under concurrency. Of the registerUser
\* calls for one normalized username that was free, issued before any of
\* them settles, at most one returns success: no call that returns success
\* has written over a record, which here only another registration can have
\* written.
C35_ExclusiveRegistration ==
    \A c \in DOMAIN returned :
        /\ returned[c].op = "registerUser"
        /\ returned[c].result.success
        => ~returned[c].overwrote

\* ------------------------------------------------------------------- C36
\* C36: the cached reaction count mirrors the remote store. Whenever no
\* call is in flight, every entry of the reaction-count cache equals the
\* number of reaction records its photo has in the remote store.
C36_CountMirrorsRemote ==
    (calls = NoMap /\ fetches = NoMap) =>
        \A p \in DOMAIN reactionCountCache :
            reactionCountCache[p]
                = Cardinality(ReactionDocs(remoteReactions, p))

\* ------------------------------------------------------------------- C37
\* C37: the feed never keeps showing a soft-deleted photo. Once the reload
\* that the photoDeleted event of a successful softDeletePhoto(p) started
\* has completed, p is not in the feed's photo list.
C37_FeedDropsDeleted ==
    ~IsNull(feedList) =>
        LET fl == feedList[1]
        IN  \A i \in DOMAIN fl.photos : << fl.photos[i].id >> \notin fl.done

\* ------------------------------------------------------------------- C38
\* C38: photo mutations made through the media store are visible to later
\* cached reads. A getAllPhotos or getVisiblePhotos call answered from the
\* cache while no media mutation is in flight, so after every mutation made
\* has returned, lists each photo with the tags and the deleted flag the
\* remote store holds for it, and lists no photo the store no longer holds.
C38_MutationsVisible ==
    \A c \in DOMAIN returned :
        LET r == returned[c]
        IN  /\ r.op \in { "getAllPhotos", "getVisiblePhotos" }
            /\ r.fid = 0
            /\ \A d \in DOMAIN calls : calls[d].op \notin MediaMutations
            => \A i \in DOMAIN r.result :
                  /\ r.result[i].id \in DOMAIN remotePhotos
                  /\ r.result[i].deleted = remotePhotos[r.result[i].id].deleted
                  /\ r.result[i].tags = remotePhotos[r.result[i].id].tags


\* ---------------------------------------------------------------- C39
\* A login(u, p) made once registerUser stored u's record with password p
\* and no googleId.
LoginsAfterRegister ==
    { c \in DOMAIN returned :
        /\ returned[c].op = "login"
        /\ ~IsNull(returned[c].record)
        /\ returned[c].record[1].password = hashPassword(returned[c].pw)
        /\ returned[c].record[1].googleId = "" }

\* C39: a login(u, p) made after registerUser succeeded for u with password
\* p and no googleId returns true and leaves u as the session's user.
C39_RegisterThenLogin ==
    \A c \in LoginsAfterRegister :
        /\ returned[c].result
        /\ session.user = << returned[c].a >>
        /\ session.authStatus = "authenticated"

\* ---------------------------------------------------------------- C40
\* C40: the list of the Comments component never holds the same comment id
\* twice, however the completion of a submit, which appends the new
\* comment, interleaves with the listener's snapshots, which replace the
\* list.
C40_NoDuplicateIds ==
    ~IsNull(commentsView) =>
        \A i, j \in DOMAIN commentsView[1].comments :
            i # j => commentsView[1].comments[i].id # commentsView[1].comments[j].id
====
